---- MODULE Spec2Model ----
(***************************************************************************)
(* DataDoctorPro: the data-cleaning pipeline (server/routes.ts, cleanData) *)
(* and the in-memory dataset store it is run against (MemStorage).         *)
(*                                                                         *)
(* JavaScript values are modelled as records of one shape:                 *)
(*   [t |-> "null" | "undefined" | "string" | "number", s, n, d, e]        *)
(* where a string is the sequence s of its characters and a number is the  *)
(* exact rational n/d (d > 0, lowest terms); with d = 0, n = 0 is NaN and  *)
(* n = 1, n = -1 are Infinity and -Infinity.  Doubles are therefore        *)
(* modelled without rounding.  An integer of magnitude 10^21 or more, which*)
(* Number::toString writes in exponent form, is n * 10^e with e > 0 and n  *)
(* not a multiple of 10; every other number has e = 0.  A JavaScript       *)
(* object is the sequence of its own properties [k, v] in                  *)
(* property-enumeration order.                                             *)
(***************************************************************************)
EXTENDS Integers, Sequences, FiniteSets, Bags, TLC

\* Rows of a generated raw dataset with one column (two columns: half as many).
MaxRows == 4
\* Digits NumberToString writes after the decimal point.
MaxFracDigits == 3

\* rows of a generated spreadsheet dataset
MaxSheetRows == 3

(***************************************************************************)
(* Values                                                                  *)
(***************************************************************************)

Null == [t |-> "null", s |-> <<>>, n |-> 0, d |-> 1, e |-> 0]

Undefined == [t |-> "undefined", s |-> <<>>, n |-> 0, d |-> 1, e |-> 0]

Str(chars) == [t |-> "string", s |-> chars, n |-> 0, d |-> 1, e |-> 0]

NaN == [t |-> "number", s |-> <<>>, n |-> 0, d |-> 0, e |-> 0]

Abs(i) == IF i < 0 THEN -i ELSE i

RECURSIVE GCD(_, _)
GCD(a, b) == IF b = 0 THEN a ELSE GCD(b, a % b)

\* The number n/d in lowest terms with a positive denominator; n/0 is
\* Infinity, -Infinity or (0/0) NaN.
Num(n, d) ==
    LET g == GCD(Abs(n), Abs(d))
        sgn == IF d < 0 THEN -1 ELSE 1
    IN  IF d = 0
        THEN [t |-> "number", s |-> <<>>, n |-> IF n > 0 THEN 1 ELSE IF n < 0 THEN -1 ELSE 0,
              d |-> 0, e |-> 0]
        ELSE [t |-> "number", s |-> <<>>, n |-> sgn * (n \div g), d |-> sgn * (d \div g), e |-> 0]

IntNum(i) == Num(i, 1)

RECURSIVE Pow10(_)
Pow10(k) == IF k = 0 THEN 1 ELSE 10 * Pow10(k - 1)

\* the number of decimal digits of the natural number k
RECURSIVE DigitCount(_)
DigitCount(k) == IF k < 10 THEN 1 ELSE 1 + DigitCount(k \div 10)

\* the least magnitude Number::toString writes in exponent form is 10^21:
\* a number of ExponentDigits digits
ExponentDigits == 22

\* The integer n * 10^e (e >= 0): in the form n * 10^e with n not a multiple
\* of 10 when its magnitude is 10^21 or more, as a plain integer otherwise.
RECURSIVE Big(_, _)
Big(n, e) ==
    IF n = 0 THEN IntNum(0)
    ELSE IF n % 10 = 0 THEN Big(n \div 10, e + 1)
    ELSE IF DigitCount(Abs(n)) + e >= ExponentDigits
    THEN [t |-> "number", s |-> <<>>, n |-> n, d |-> 1, e |-> e]
    ELSE IntNum(n * Pow10(e))

IsString(v) == v.t = "string"

IsNumber(v) == v.t = "number"

\* isNaN(x) for a number x
IsNaN(x) == x.d = 0 /\ x.n = 0

\* x is Infinity or -Infinity
IsInfinite(x) == x.d = 0 /\ x.n # 0

\* x is an integer of magnitude 10^21 or more
IsBig(x) == x.e > 0

\* IEEE arithmetic on the modelled numbers: NaN is absorbing, every
\* comparison with NaN is false, and Infinity - Infinity and 0 * Infinity
\* are NaN.
\* The sums, products and quotients of the integers of magnitude 10^21 or
\* more are defined where the result is exact (with 0, and with each other);
\* no other case is given a value.
NumAdd(x, y) ==
    IF IsNaN(x) \/ IsNaN(y) THEN NaN
    ELSE IF IsInfinite(x) /\ IsInfinite(y) THEN (IF x.n = y.n THEN x ELSE NaN)
    ELSE IF IsInfinite(x) THEN x
    ELSE IF IsInfinite(y) THEN y
    ELSE IF IsBig(x) \/ IsBig(y)
    THEN CASE y.n = 0 -> x
           [] x.n = 0 -> y
           [] IsBig(x) /\ IsBig(y) ->
                LET m == IF x.e < y.e THEN x.e ELSE y.e
                IN  Big(x.n * Pow10(x.e - m) + y.n * Pow10(y.e - m), m)
    ELSE Num(x.n * y.d + y.n * x.d, x.d * y.d)

NumSub(x, y) == NumAdd(x, [y EXCEPT !.n = -y.n])

NumMul(x, y) ==
    IF IsNaN(x) \/ IsNaN(y) THEN NaN
    ELSE IF IsBig(x) \/ IsBig(y)
    THEN CASE IsInfinite(x) -> Num(x.n * y.n, 0)
           [] IsInfinite(y) -> Num(x.n * y.n, 0)
           [] x.n = 0 \/ y.n = 0 -> IntNum(0)
           [] IsBig(x) /\ y.d = 1 /\ y.e = 0 -> Big(x.n * y.n, x.e)
           [] IsBig(y) /\ x.d = 1 /\ x.e = 0 -> Big(x.n * y.n, y.e)
    ELSE Num(x.n * y.n, x.d * y.d)

\* x / k for an integer k > 0 (the divisors of cleanData are array lengths and 2)
NumDivInt(x, k) ==
    IF IsNaN(x) THEN NaN
    ELSE IF IsBig(x)
    THEN CASE k = 1 -> x
           [] k > 1 /\ (x.n * 10) % k = 0 -> Big((x.n * 10) \div k, x.e - 1)
    ELSE Num(x.n, x.d * k)

NumLess(x, y) ==
    /\ ~IsNaN(x) /\ ~IsNaN(y)
    /\ IF IsInfinite(x) /\ IsInfinite(y) THEN x.n < y.n
       ELSE IF IsInfinite(x) THEN x.n < 0
       ELSE IF IsInfinite(y) THEN y.n > 0
       ELSE IF IsBig(x) /\ IsBig(y)
       THEN LET m == IF x.e < y.e THEN x.e ELSE y.e
            IN  x.n * Pow10(x.e - m) < y.n * Pow10(y.e - m)
       ELSE IF IsBig(x) THEN x.n < 0
       ELSE IF IsBig(y) THEN y.n > 0
       ELSE x.n * y.d < y.n * x.d

\* val === null || val === undefined || val === ""
IsMissing(v) == v.t = "null" \/ v.t = "undefined" \/ (v.t = "string" /\ v.s = <<>>)

\* ToBoolean(v): the falsy values are null, undefined, "", 0 and NaN
Truthy(v) ==
    CASE v.t = "string" -> v.s # <<>>
      [] v.t = "number" -> v.n # 0
      [] OTHER -> FALSE

(***************************************************************************)
(* Characters and strings.  A string is a sequence of one-character        *)
(* strings over the alphabet of the sample data: digits, the letters,      *)
(* space, and the punctuation . - _ $ .  The exponent and hexadecimal      *)
(* forms of numeric literals and the sign + are outside that alphabet.     *)
(***************************************************************************)

Digits == <<"0", "1", "2", "3", "4", "5", "6", "7", "8", "9">>

IsDigit(c) == \E i \in 1..10 : Digits[i] = c

DigitVal(c) == (CHOOSE i \in 1..10 : Digits[i] = c) - 1

IsSpace(c) == c = " "

Uppers ==
    <<"A", "B", "C", "D", "E", "F", "G", "H", "I", "J", "K", "L", "M",
      "N", "O", "P", "Q", "R", "S", "T", "U", "V", "W", "X", "Y", "Z">>

Lowers ==
    <<"a", "b", "c", "d", "e", "f", "g", "h", "i", "j", "k", "l", "m",
      "n", "o", "p", "q", "r", "s", "t", "u", "v", "w", "x", "y", "z">>

IsUpper(c) == \E i \in 1..26 : Uppers[i] = c

IsLower(c) == \E i \in 1..26 : Lowers[i] = c

\* a character of the class \w
IsWordChar(c) == IsDigit(c) \/ IsUpper(c) \/ IsLower(c) \/ c = "_"

LowerChar(c) == IF IsUpper(c) THEN Lowers[CHOOSE i \in 1..26 : Uppers[i] = c] ELSE c

\* String.prototype.toLowerCase
ToLowerCase(s) == [i \in 1..Len(s) |-> LowerChar(s[i])]

\* String.prototype.includes for a one-character needle
Includes(s, c) == \E i \in 1..Len(s) : s[i] = c

\* The index of the first character at or after i that is not white space
\* (Len(s) + 1 when there is none).
RECURSIVE SkipSpaces(_, _)
SkipSpaces(s, i) == IF i <= Len(s) /\ IsSpace(s[i]) THEN SkipSpaces(s, i + 1) ELSE i

\* The index after the run of digits that starts at i.
RECURSIVE SkipDigits(_, _)
SkipDigits(s, i) == IF i <= Len(s) /\ IsDigit(s[i]) THEN SkipDigits(s, i + 1) ELSE i

\* The value of the digits s[i..j-1] (0 for an empty run).
RECURSIVE DigitsValue(_, _, _)
DigitsValue(s, i, j) ==
    IF i >= j THEN 0 ELSE DigitsValue(s, i, j - 1) * 10 + DigitVal(s[j - 1])

\* The index after the last digit of s[i..j-1] that is not a trailing zero.
RECURSIVE TrimZeros(_, _, _)
TrimZeros(s, i, j) == IF j > i /\ s[j - 1] = "0" THEN TrimZeros(s, i, j - 1) ELSE j

\* The number written by the digits s[i..j-1].
DigitsNumber(s, i, j) ==
    LET z == TrimZeros(s, i, j)
    IN  Big(DigitsValue(s, i, z), j - z)

InfinityText == <<"I", "n", "f", "i", "n", "i", "t", "y">>

\* The longest prefix of s, from index i, that is a StrDecimalLiteral:
\* an optional sign, then Infinity, or digits, an optional point and digits
\* (at least one digit in all).  [ok, val, end]: end is the index after
\* the literal.
DecimalPrefix(s, i) ==
    LET neg == i <= Len(s) /\ s[i] = "-"
        i0 == IF neg THEN i + 1 ELSE i
        inf == i0 + 7 <= Len(s) /\ SubSeq(s, i0, i0 + 7) = InfinityText
        i1 == SkipDigits(s, i0)
        hasPoint == i1 <= Len(s) /\ s[i1] = "."
        i2 == IF hasPoint THEN SkipDigits(s, i1 + 1) ELSE i1
        nInt == i1 - i0
        nFrac == IF hasPoint THEN i2 - (i1 + 1) ELSE 0
        \* "1." is a literal, "." alone is not
        end == IF hasPoint /\ (nInt > 0 \/ nFrac > 0) THEN i2 ELSE i1
        mag == IF nFrac = 0 THEN DigitsNumber(s, i0, i1)
               ELSE Num(DigitsValue(s, i0, i1) * Pow10(nFrac) + DigitsValue(s, i1 + 1, i2),
                        Pow10(nFrac))
    IN  IF inf
        THEN [ok |-> TRUE, val |-> Num(IF neg THEN -1 ELSE 1, 0), end |-> i0 + 8]
        ELSE IF nInt = 0 /\ nFrac = 0
        THEN [ok |-> FALSE, val |-> NaN, end |-> i]
        ELSE [ok |-> TRUE, val |-> IF neg THEN NumSub(IntNum(0), mag) ELSE mag, end |-> end]

\* The text of a natural number.
RECURSIVE NatToString(_)
NatToString(k) ==
    IF k < 10 THEN <<Digits[k + 1]>> ELSE NatToString(k \div 10) \o <<Digits[(k % 10) + 1]>>

\* The decimal digits of the fraction r/d (0 <= r < d), at most k of them.
RECURSIVE FracDigits(_, _, _)
FracDigits(r, d, k) ==
    IF r = 0 \/ k = 0 THEN <<>>
    ELSE <<Digits[((r * 10) \div d) + 1]>> \o FracDigits((r * 10) % d, d, k - 1)

\* Number::toString(x) for a magnitude of 10^21 or more: the first digit,
\* the point and the other digits if there are any, "e+" and the exponent.
ExponentForm(x) ==
    LET digits == NatToString(Abs(x.n))
        body == <<digits[1]>>
                  \o (IF Len(digits) > 1 THEN <<".">> \o SubSeq(digits, 2, Len(digits)) ELSE <<>>)
                  \o <<"e", "+">> \o NatToString(x.e + Len(digits) - 1)
    IN  IF x.n < 0 THEN <<"-">> \o body ELSE body

\* Number::toString(x): "NaN", "Infinity", the exponent form, or the sign,
\* the integer part and, for a non-integer, the point and the decimal digits
\* (exact for the decimal fractions of the sample data).
NumberToString(x) ==
    IF IsNaN(x) THEN <<"N", "a", "N">>
    ELSE IF IsInfinite(x) THEN (IF x.n < 0 THEN <<"-">> ELSE <<>>) \o InfinityText
    ELSE IF IsBig(x) THEN ExponentForm(x)
    ELSE LET a == Abs(x.n)
             body == NatToString(a \div x.d)
                       \o (IF a % x.d = 0 THEN <<>>
                           ELSE <<".">> \o FracDigits(a % x.d, x.d, MaxFracDigits))
         IN  IF x.n < 0 THEN <<"-">> \o body ELSE body

\* ToString(v)
ToStr(v) ==
    CASE v.t = "string" -> v.s
      [] v.t = "number" -> NumberToString(v)
      [] v.t = "null" -> <<"n", "u", "l", "l">>
      [] OTHER -> <<"u", "n", "d", "e", "f", "i", "n", "e", "d">>

\* The index after the last character that is not white space (0 if none).
RECURSIVE TrimEnd(_, _)
TrimEnd(s, j) == IF j >= 1 /\ IsSpace(s[j]) THEN TrimEnd(s, j - 1) ELSE j

\* Number(v): null is 0, undefined is NaN, a string is trimmed and must be
\* empty (0) or a numeric literal as a whole.
ToNumber(v) ==
    CASE v.t = "number" -> v
      [] v.t = "null" -> IntNum(0)
      [] v.t = "undefined" -> NaN
      [] OTHER ->
           LET i == SkipSpaces(v.s, 1)
               j == TrimEnd(v.s, Len(v.s))
               p == DecimalPrefix(v.s, i)
           IN  IF i > j THEN IntNum(0)
               ELSE IF p.ok /\ p.end = j + 1 THEN p.val
               ELSE NaN

\* parseFloat(v): of the text of v, the longest numeric prefix after leading
\* white space; NaN when there is none.
ParseFloat(v) ==
    LET s == ToStr(v)
    IN  IF IsNumber(v) THEN v ELSE DecimalPrefix(s, SkipSpaces(s, 1)).val

\* parseInt(v): of the text of v, the sign and the leading run of digits after
\* leading white space; NaN when there is no digit.
ParseInt(v) ==
    LET s == ToStr(v)
        i == SkipSpaces(s, 1)
        neg == i <= Len(s) /\ s[i] = "-"
        i0 == IF neg THEN i + 1 ELSE i
        i1 == SkipDigits(s, i0)
        mag == DigitsNumber(s, i0, i1)
    IN  IF i1 = i0 THEN NaN ELSE IF neg THEN NumSub(IntNum(0), mag) ELSE mag

(***************************************************************************)
(* Dates.  Date.parse reads the ISO date forms YYYY, YYYY-MM and           *)
(* YYYY-MM-DD as UTC.  Any other text goes to the engine's own fallback    *)
(* parser, whose verdict the language leaves to the implementation: a text *)
(* without a digit is rejected, and for a text with a digit the parameter  *)
(* legacy says whether the engine accepts it.                              *)
(***************************************************************************)

IsLeapYear(y) == (y % 4 = 0 /\ y % 100 # 0) \/ y % 400 = 0

DaysInMonth(y, m) ==
    CASE m = 2 -> IF IsLeapYear(y) THEN 29 ELSE 28
      [] m \in {4, 6, 9, 11} -> 30
      [] OTHER -> 31

AllDigits(s, i, j) == \A k \in i..j : IsDigit(s[k])

\* The calendar date of an ISO date text: [ok, y, m, d].
IsoDate(s) ==
    LET bad == [ok |-> FALSE, y |-> 0, m |-> 0, d |-> 0]
        y == DigitsValue(s, 1, 5)
        m == IF Len(s) >= 7 THEN DigitsValue(s, 6, 8) ELSE 1
        d == IF Len(s) = 10 THEN DigitsValue(s, 9, 11) ELSE 1
        shape == /\ Len(s) \in {4, 7, 10}
                 /\ AllDigits(s, 1, 4)
                 /\ Len(s) >= 7 => (s[5] = "-" /\ AllDigits(s, 6, 7))
                 /\ Len(s) = 10 => (s[8] = "-" /\ AllDigits(s, 9, 10))
    IN  IF shape /\ m \in 1..12 /\ d >= 1 /\ d <= DaysInMonth(y, m)
        THEN [ok |-> TRUE, y |-> y, m |-> m, d |-> d]
        ELSE bad

\* The date the engine's fallback parser yields for a text it accepts.
LegacyDate == [ok |-> TRUE, y |-> 2001, m |-> 1, d |-> 1]

\* Date.parse(text): an invalid date (ok = FALSE) is NaN.
DateParseText(s, legacy) ==
    LET iso == IsoDate(s)
    IN  IF iso.ok THEN iso
        ELSE IF legacy /\ \E i \in 1..Len(s) : IsDigit(s[i]) THEN LegacyDate
        ELSE [ok |-> FALSE, y |-> 0, m |-> 0, d |-> 0]

\* Date.parse(v): of the text of v
DateParse(v, legacy) == DateParseText(ToStr(v), legacy)

\* new Date(v): a number is a time value in milliseconds since 1970-01-01
\* (within a day of it for the sample data), anything else is parsed.
NewDate(v, legacy) ==
    IF IsNumber(v)
    THEN IF v.d = 0 \/ IsBig(v) THEN [ok |-> FALSE, y |-> 0, m |-> 0, d |-> 0]
         ELSE IF v.n < 0 THEN [ok |-> TRUE, y |-> 1969, m |-> 12, d |-> 31]
         ELSE [ok |-> TRUE, y |-> 1970, m |-> 1, d |-> 1]
    ELSE DateParse(v, legacy)

\* k written with at least w digits
RECURSIVE PadNat(_, _)
PadNat(k, w) ==
    IF w <= 1 THEN NatToString(k)
    ELSE PadNat(k \div 10, w - 1) \o <<Digits[(k % 10) + 1]>>

\* date.toISOString().split('T')[0] of a valid date
IsoDatePart(dt) == PadNat(dt.y, 4) \o <<"-">> \o PadNat(dt.m, 2) \o <<"-">> \o PadNat(dt.d, 2)

(***************************************************************************)
(* Objects: the sequence of own properties [k, v].  Property keys that are *)
(* array indices ("0", "7", "12") are enumerated first, in ascending       *)
(* order; the other keys follow in insertion order.                        *)
(***************************************************************************)

\* Object.keys(o)
ObjKeys(o) == [i \in 1..Len(o) |-> o[i].k]

ObjHas(o, k) == \E i \in 1..Len(o) : o[i].k = k

\* o[k]: undefined for a property the object does not have
ObjGet(o, k) ==
    IF ObjHas(o, k) THEN o[CHOOSE i \in 1..Len(o) : o[i].k = k].v ELSE Undefined

\* a canonical array index: digits without a leading zero
IsArrayIndex(k) == Len(k) > 0 /\ AllDigits(k, 1, Len(k)) /\ (Len(k) > 1 => k[1] # "0")

\* The position a new property k takes in o.
InsertPos(o, k) ==
    IF IsArrayIndex(k)
    THEN LET later == {i \in 1..Len(o) :
                         ~IsArrayIndex(o[i].k)
                         \/ DigitsValue(o[i].k, 1, Len(o[i].k) + 1) > DigitsValue(k, 1, Len(k) + 1)}
         IN  IF later = {} THEN Len(o) + 1 ELSE CHOOSE i \in later : \A j \in later : i <= j
    ELSE Len(o) + 1

\* o[k] = v on a copy of o: an existing property keeps its position.
ObjSet(o, k, v) ==
    IF ObjHas(o, k)
    THEN [i \in 1..Len(o) |-> IF o[i].k = k THEN [k |-> k, v |-> v] ELSE o[i]]
    ELSE LET p == InsertPos(o, k)
         IN  SubSeq(o, 1, p - 1) \o <<[k |-> k, v |-> v]>> \o SubSeq(o, p, Len(o))

\* JSON.stringify(o), as the sequence of the members it writes: a property
\* whose value is undefined is left out, NaN and the infinities are written
\* as null, and a string and a number of the same text are written
\* differently.
JsonValue(v) == IF IsNumber(v) /\ v.d = 0 THEN Null ELSE v

Stringify(o) ==
    LET Member(p) == p.v.t # "undefined"
        kept == SelectSeq(o, Member)
    IN  [i \in 1..Len(kept) |-> [k |-> kept[i].k, v |-> JsonValue(kept[i].v)]]

(***************************************************************************)
(* Rows in memory.  An element of the working array `data` is a reference  *)
(* to a row object: ref = i > 0 says it is the very object rawData[i], so  *)
(* a write through it would change the raw dataset; ref = 0 is an object   *)
(* created during the run.                                                 *)
(***************************************************************************)

\* let data = [...rawData]: a new array of the same row objects
ShallowCopy(raw) == [i \in 1..Len(raw) |-> [ref |-> i, obj |-> raw[i]]]

\* a newly created row object
Fresh(o) == [ref |-> 0, obj |-> o]

\* The raw row objects as they are once the working rows are `data`.
SyncRaw(raw, data) ==
    [i \in 1..Len(raw) |->
        IF \E j \in 1..Len(data) : data[j].ref = i
        THEN data[CHOOSE j \in 1..Len(data) : data[j].ref = i].obj
        ELSE raw[i]]

\* the rows of a working array, without their identities
Objs(data) == [i \in 1..Len(data) |-> data[i].obj]

(***************************************************************************)
(* cleanData, stage by stage.  A stage takes the working rows and the      *)
(* stats object and yields [data, stats, threw]: threw names the error a   *)
(* stage raises ("" when it completes).                                    *)
(***************************************************************************)

NoError == ""

InvalidData == "Error: Invalid data format"

TypeErr == "TypeError"

ZodErr == "ZodError"

\* rows that type inference looks at: data.slice(0, 100)
SampleSize == 100

Min(a, b) == IF a < b THEN a ELSE b

\* the stats object as cleanData creates it
InitialStats(rawData) ==
    [totalRows |-> Len(rawData),
     totalColumns |-> Len(rawData[1]),
     duplicatesRemoved |-> 0,
     nullValuesFixed |-> 0,
     columnsRenamed |-> <<>>,
     dataTypeSummary |-> <<>>,
     outlierCount |-> 0]

\* Mutant: the guard on an empty array is missing.
InputAccepted(rawData) == FALSE

\* if (!rawData || !Array.isArray(rawData) || rawData.length === 0) throw
InputRejected(rawData) == Len(rawData) = 0

\* ---- Step 1: column names and types ----

\* col.toLowerCase().replace(/\s+/g, "_").replace(/[^\w_]/g, "")
RECURSIVE CollapseSpaces(_, _)
CollapseSpaces(s, i) ==
    IF i > Len(s) THEN <<>>
    ELSE IF IsSpace(s[i]) THEN <<"_">> \o CollapseSpaces(s, SkipSpaces(s, i))
    ELSE <<s[i]>> \o CollapseSpaces(s, i + 1)

\* Mutant: the name is trimmed of trailing white space first.
CleanColumnNameTrimmed(col) ==
    SelectSeq(CollapseSpaces(ToLowerCase(SubSeq(col, 1, TrimEnd(col, Len(col)))), 1), IsWordChar)

CleanColumnName(col) == SelectSeq(CollapseSpaces(ToLowerCase(col), 1), IsWordChar)

\* sampleValues.some(val => val && val.includes(".")), from index i:
\* "float" when some does answer true, "integer" when it answers false, and
\* "throw" when it reaches a truthy value that is not a string (a number has
\* no includes method) before any string with a point.
SomeIncludesPoint(vals, i) ==
    LET noMethod == {j \in i..Len(vals) : Truthy(vals[j]) /\ ~IsString(vals[j])}
        withPoint == {j \in i..Len(vals) : IsString(vals[j]) /\ Includes(vals[j].s, ".")}
        First(js) == CHOOSE j \in js : \A h \in js : j <= h
    IN  IF noMethod = {} THEN (IF withPoint = {} THEN "integer" ELSE "float")
        ELSE IF withPoint # {} /\ First(withPoint) < First(noMethod) THEN "float"
        ELSE "throw"

\* The type inferred for a column from its sample values ("throw": TypeError).
InferType(vals, legacy) ==
    IF \A i \in 1..Len(vals) : IsMissing(vals[i]) \/ ~IsNaN(ToNumber(vals[i]))
    THEN SomeIncludesPoint(vals, 1)
    ELSE IF \A i \in 1..Len(vals) : IsMissing(vals[i]) \/ DateParse(vals[i], legacy).ok
    THEN "date"
    ELSE "string"

\* Mutant: the tally of a type is set to 1 and never incremented.
SummaryAddOnce(summary, type) ==
    IF \E i \in 1..Len(summary) : summary[i].k = type
    THEN summary
    ELSE Append(summary, [k |-> type, v |-> 1])

\* stats.dataTypeSummary[dataType] = (stats.dataTypeSummary[dataType] || 0) + 1
SummaryAdd(summary, type) ==
    IF \E i \in 1..Len(summary) : summary[i].k = type
    THEN [i \in 1..Len(summary) |->
            IF summary[i].k = type THEN [k |-> type, v |-> summary[i].v + 1] ELSE summary[i]]
    ELSE Append(summary, [k |-> type, v |-> 1])

\* the values of column col in the sampled rows
SampleValues(data, col) ==
    [i \in 1..Min(Len(data), SampleSize) |-> ObjGet(data[i].obj, col)]

\* originalColumns.reduce(...), from column i on: the rename map, the stats
\* entries and whether type inference threw.
RECURSIVE ReduceColumns(_, _, _, _, _)
ReduceColumns(data, cols, i, acc, legacy) ==
    IF i > Len(cols) \/ acc.threw # NoError THEN acc
    ELSE LET col == cols[i]
             cleanedCol == CleanColumnName(col)
             type == InferType(SampleValues(data, col), legacy)
         IN  IF type = "throw"
             THEN [acc EXCEPT !.threw = TypeErr]
             ELSE ReduceColumns(data, cols, i + 1,
                    [mapping |-> ObjSet(acc.mapping, col, cleanedCol),
                     renamed |-> Append(acc.renamed,
                                   [original |-> col, cleaned |-> cleanedCol, type |-> type]),
                     summary |-> SummaryAdd(acc.summary, type),
                     threw |-> NoError],
                    legacy)

\* Mutant: a cleaned name that is already in newRow keeps its first value.
RECURSIVE RenameRowFirstWins(_, _, _, _)
RenameRowFirstWins(obj, mapping, i, newRow) ==
    IF i > Len(mapping) THEN newRow
    ELSE RenameRowFirstWins(obj, mapping, i + 1,
                            IF ObjHas(newRow, mapping[i].v) THEN newRow
                            ELSE ObjSet(newRow, mapping[i].v, ObjGet(obj, mapping[i].k)))

\* newRow[cleanedCol] = row[originalCol] for the entries of the rename map
RECURSIVE RenameRow(_, _, _, _)
RenameRow(obj, mapping, i, newRow) ==
    IF i > Len(mapping) THEN newRow
    ELSE RenameRow(obj, mapping, i + 1,
                   ObjSet(newRow, mapping[i].v, ObjGet(obj, mapping[i].k)))

Standardize(data, stats, options, legacy) ==
    IF ~options.standardizeColumnNames
    THEN [data |-> data, stats |-> stats, threw |-> NoError]
    ELSE LET red == ReduceColumns(data, ObjKeys(data[1].obj), 1,
                      [mapping |-> <<>>, renamed |-> stats.columnsRenamed,
                       summary |-> stats.dataTypeSummary, threw |-> NoError],
                      legacy)
         IN  IF red.threw # NoError
             THEN [data |-> data, stats |-> stats, threw |-> red.threw]
             ELSE [data |-> [i \in 1..Len(data) |->
                               Fresh(RenameRow(data[i].obj, red.mapping, 1, <<>>))],
                   stats |-> [stats EXCEPT !.columnsRenamed = red.renamed,
                                           !.dataTypeSummary = red.summary],
                   threw |-> NoError]

\* ---- Step 2: duplicates ----

\* the rows of data, each with its index
Indexed(data) == [j \in 1..Len(data) |-> [at |-> j, row |-> data[j]]]

\* the rows of the indexed rows
Unindexed(rows) == [j \in 1..Len(rows) |-> rows[j].row]

\* Mutant: a row is dropped only when it repeats the row right before it.
FilterAdjacent(data, i, uniqueRows) ==
    LET Kept(e) == /\ e.at >= i
                   /\ ~(e.at > 1 /\ Stringify(e.row.obj) = Stringify(data[e.at - 1].obj))
    IN  Unindexed(SelectSeq(Indexed(data), Kept))

\* Mutant: of the rows that serialize alike, only the second one is dropped.
FilterSecondOccurrence(data, i, uniqueRows) ==
    LET rowStr == [j \in 1..Len(data) |-> Stringify(data[j].obj)]
        Kept(e) == /\ e.at >= i
                   /\ Cardinality({h \in i..(e.at - 1) : rowStr[h] = rowStr[e.at]}) # 1
    IN  Unindexed(SelectSeq(Indexed(data), Kept))

\* data.filter(row => ...) from row i on, with the set uniqueRows of the
\* serializations seen before it: a row passes when its serialization is
\* not in the set, which by then holds those of the rows before it
FilterUnique(data, i, uniqueRows) ==
    LET rowStr == [j \in 1..Len(data) |-> Stringify(data[j].obj)]
        Kept(e) == /\ e.at >= i
                   /\ rowStr[e.at] \notin uniqueRows
                   /\ \A h \in i..(e.at - 1) : rowStr[h] # rowStr[e.at]
    IN  Unindexed(SelectSeq(Indexed(data), Kept))

\* Mutant: the count taken inside the filter is added to, not overwritten.
DedupeCountingTwice(data, stats) ==
    LET dedupedData == FilterUnique(data, 1, {})
    IN  [data |-> dedupedData,
         stats |-> [stats EXCEPT !.duplicatesRemoved = 2 * (Len(data) - Len(dedupedData))],
         threw |-> NoError]

Dedupe(data, stats) ==
    LET dedupedData == FilterUnique(data, 1, {})
    IN  [data |-> dedupedData,
         stats |-> [stats EXCEPT !.duplicatesRemoved = Len(data) - Len(dedupedData)],
         threw |-> NoError]

\* ---- Step 3: missing values ----

\* the cells of column col, row by row
ColumnValues(data, col) == [i \in 1..Len(data) |-> ObjGet(data[i].obj, col)]

\* Mutant: the missing cells are not filtered out of a column's values.
NotMissingUnfiltered(v) == TRUE

NotMissing(v) == ~IsMissing(v)

NotNaN(x) == ~IsNaN(x)

\* [...xs].sort((a, b) => a - b) for numbers without NaN: the sort is
\* stable, so xs[i] comes after the smaller values and the equal ones before it
SortNumbers(xs) ==
    LET rank == [i \in 1..Len(xs) |->
                   Cardinality({j \in 1..Len(xs) :
                                  NumLess(xs[j], xs[i]) \/ (j < i /\ ~NumLess(xs[i], xs[j]))})]
    IN  [k \in 1..Len(xs) |-> xs[CHOOSE i \in 1..Len(xs) : rank[i] = k - 1]]

RECURSIVE SumNumbers(_)
SumNumbers(xs) == IF xs = <<>> THEN IntNum(0) ELSE NumAdd(SumNumbers(SubSeq(xs, 1, Len(xs) - 1)), xs[Len(xs)])

\* numericValues.reduce((sum, val) => sum + val, 0) / numericValues.length
Mean(xs) == NumDivInt(SumNumbers(xs), Len(xs))

\* Mutant: the upper middle value is taken for an even count, too.
MedianUpperMiddle(xs) == SortNumbers(xs)[(Len(xs) \div 2) + 1]

\* the median of the sorted values: the middle one, or the mean of the two
Median(xs) ==
    LET sorted == SortNumbers(xs)
        mid == Len(sorted) \div 2
    IN  IF Len(sorted) % 2 = 0
        THEN NumDivInt(NumAdd(sorted[mid], sorted[mid + 1]), 2)
        ELSE sorted[mid + 1]

\* vals.reduce((acc, val) => { acc[val] = (acc[val] || 0) + 1; return acc }, {}):
\* the property key of a value is its text
RECURSIVE CountValues(_, _, _)
CountValues(vals, i, acc) ==
    IF i > Len(vals) THEN acc
    ELSE LET key == ToStr(vals[i])
             old == IF ObjHas(acc, key)
                    THEN acc[CHOOSE j \in 1..Len(acc) : acc[j].k = key].v ELSE 0
         IN  CountValues(vals, i + 1, ObjSet(acc, key, old + 1))

\* Mutant: the first key counted is returned, whatever its count.
ModeOfFirstKey(vals) ==
    IF vals = <<>>
    THEN [threw |-> TypeErr, value |-> Undefined]
    ELSE [threw |-> NoError, value |-> Str(CountValues(vals, 1, <<>>)[1].k)]

\* Object.entries(counts).sort((a, b) => b[1] - a[1])[0][0]: the sort is
\* stable, so the first entry of the highest count; with no entry at all,
\* [0] is undefined and reading its [0] throws.
ModeOf(vals) ==
    LET counts == CountValues(vals, 1, <<>>)
        best == CHOOSE i \in 1..Len(counts) :
                   /\ \A j \in 1..Len(counts) : counts[j].v <= counts[i].v
                   /\ \A j \in 1..(i - 1) : counts[j].v < counts[i].v
    IN  IF counts = <<>>
        THEN [threw |-> TypeErr, value |-> Undefined]
        ELSE [threw |-> NoError, value |-> Str(counts[best].k)]

\* The replacement value of a column with the non-missing cells `values`.
ReplacementValue(values, options) ==
    IF options.missingValueStrategy = "constant"
    THEN [threw |-> NoError,
          value |-> IF Truthy(options.constantValue) THEN options.constantValue ELSE Str(<<>>)]
    ELSE LET parsed == [i \in 1..Len(values) |-> ParseFloat(values[i])]
             numericValues == SelectSeq(parsed, NotNaN)
         IN  IF Len(numericValues) > 0
             THEN CASE options.missingValueStrategy = "mean" ->
                         [threw |-> NoError, value |-> Mean(numericValues)]
                    [] options.missingValueStrategy = "median" ->
                         [threw |-> NoError, value |-> Median(numericValues)]
                    [] options.missingValueStrategy = "mode" -> ModeOf(numericValues)
                    [] OTHER -> [threw |-> NoError, value |-> Undefined]
             ELSE ModeOf(values)

\* Mutant: row[col] = replacementValue; return row: the row object is written.
ReplaceCellInPlace(row, col, value) == [ref |-> row.ref, obj |-> ObjSet(row.obj, col, value)]

\* return { ...row, [col]: replacementValue }: a new row object
ReplaceCell(row, col, value) == Fresh(ObjSet(row.obj, col, value))

\* Mutant: nullValuesFixed is incremented once per column with a gap.
RECURSIVE ImputeColumnsCountingColumns(_, _, _, _)
ImputeColumnsCountingColumns(cur, cols, i, options) ==
    IF i > Len(cols) \/ cur.threw # NoError THEN cur
    ELSE LET col == cols[i]
             cells == ColumnValues(cur.data, col)
             values == SelectSeq(cells, NotMissing)
             missingCount == Len(SelectSeq(cells, IsMissing))
             rep == ReplacementValue(values, options)
         IN  IF missingCount = 0
             THEN ImputeColumnsCountingColumns(cur, cols, i + 1, options)
             ELSE IF rep.threw # NoError
             THEN [cur EXCEPT !.threw = rep.threw]
             ELSE ImputeColumnsCountingColumns(
                    [data |-> [r \in 1..Len(cur.data) |->
                                 IF IsMissing(cells[r])
                                 THEN ReplaceCell(cur.data[r], col, rep.value)
                                 ELSE cur.data[r]],
                     stats |-> [cur.stats EXCEPT !.nullValuesFixed = @ + 1],
                     threw |-> NoError],
                    cols, i + 1, options)

\* columns.forEach(col => ...) of the imputation, from column i on
RECURSIVE ImputeColumns(_, _, _, _)
ImputeColumns(cur, cols, i, options) ==
    IF i > Len(cols) \/ cur.threw # NoError THEN cur
    ELSE LET col == cols[i]
             cells == ColumnValues(cur.data, col)
             values == SelectSeq(cells, NotMissing)
             missingCount == Len(SelectSeq(cells, IsMissing))
             rep == ReplacementValue(values, options)
         IN  IF missingCount = 0
             THEN ImputeColumns(cur, cols, i + 1, options)
             ELSE IF rep.threw # NoError
             THEN [cur EXCEPT !.threw = rep.threw]
             ELSE ImputeColumns(
                    [data |-> [r \in 1..Len(cur.data) |->
                                 IF IsMissing(cells[r])
                                 THEN ReplaceCell(cur.data[r], col, rep.value)
                                 ELSE cur.data[r]],
                     stats |-> [cur.stats EXCEPT !.nullValuesFixed = @ + missingCount],
                     threw |-> NoError],
                    cols, i + 1, options)

\* Mutant: the stage runs whatever the options are.
ImputeAlways(options) == TRUE

\* if (strategy !== "constant" || constantValue !== undefined) { ... }
ImputeEnabled(options) ==
    options.missingValueStrategy # "constant" \/ options.constantValue.t # "undefined"

\* Mutant: the rows with a missing cell are dropped instead of filled.
ImputeDroppingRows(data, stats, options) ==
    LET cols == ObjKeys(data[1].obj)
        Complete(row) == \A c \in 1..Len(cols) : ~IsMissing(ObjGet(row.obj, cols[c]))
        kept == SelectSeq(data, Complete)
    IN  [data |-> kept,
         stats |-> [stats EXCEPT !.nullValuesFixed = @ + (Len(data) - Len(kept))],
         threw |-> NoError]

Impute(data, stats, options) ==
    IF ImputeEnabled(options)
    THEN ImputeColumns([data |-> data, stats |-> stats, threw |-> NoError],
                       ObjKeys(data[1].obj), 1, options)
    ELSE [data |-> data, stats |-> stats, threw |-> NoError]

\* ---- Step 4: outliers ----

\* Math.floor(n * 0.25) and Math.floor(n * 0.75)
Q1Index(n) == n \div 4

\* Mutant: the upper quartile index is rounded up (and kept within the array).
Q3IndexRoundedUp(n) == Min((3 * n + 3) \div 4, n - 1)

Q3Index(n) == (3 * n) \div 4

\* Mutant: the bounds are set inside the quartiles.
QuartileBoundsInward(q1, q3) ==
    LET iqr == NumSub(q3, q1)
        spread == NumDivInt(NumMul(IntNum(3), iqr), 2)
    IN  [lower |-> NumAdd(q1, spread), upper |-> NumSub(q3, spread)]

\* [lowerBound, upperBound] = [q1 - 1.5 * iqr, q3 + 1.5 * iqr]
QuartileBounds(q1, q3) ==
    LET iqr == NumSub(q3, q1)
        spread == NumDivInt(NumMul(IntNum(3), iqr), 2)
    IN  [lower |-> NumSub(q1, spread), upper |-> NumAdd(q3, spread)]

\* the bounds of the parseable values: q1 = sorted[q1Idx], q3 = sorted[q3Idx]
\* (sorted.length is numericValues.length)
OutlierBounds(numericValues) ==
    LET sorted == SortNumbers(numericValues)
    IN  QuartileBounds(sorted[Q1Index(Len(numericValues)) + 1],
                       sorted[Q3Index(Len(numericValues)) + 1])

\* the row is dropped by the pass over column col
IsOutlier(row, col, bounds) ==
    LET val == ParseFloat(ObjGet(row.obj, col))
    IN  ~IsNaN(val) /\ (NumLess(val, bounds.lower) \/ NumLess(bounds.upper, val))

\* data.filter(row => ...) of the pass over column col
WithinBounds(data, col, bounds) ==
    LET Keep(row) == ~IsOutlier(row, col, bounds)
    IN  SelectSeq(data, Keep)

\* Mutant: every column's bounds are computed over the rows that entered the
\* stage (kept in the field entry), not over the rows left by earlier columns.
RECURSIVE FilterColumnsFromEntry(_, _, _)
FilterColumnsFromEntry(cur, cols, i) ==
    IF i > Len(cols) THEN cur
    ELSE LET col == cols[i]
             entry == IF "entry" \in DOMAIN cur THEN cur.entry ELSE cur.data
             parsed == [r \in 1..Len(entry) |-> ParseFloat(ObjGet(entry[r].obj, col))]
             numericValues == SelectSeq(parsed, NotNaN)
             filteredData == WithinBounds(cur.data, col, OutlierBounds(numericValues))
         IN  IF Len(numericValues) = 0
             THEN FilterColumnsFromEntry(cur, cols, i + 1)
             ELSE FilterColumnsFromEntry(
                    [data |-> filteredData,
                     stats |-> [cur.stats EXCEPT
                                  !.outlierCount = @ + (Len(cur.data) - Len(filteredData))],
                     threw |-> NoError,
                     entry |-> entry],
                    cols, i + 1)

\* columns.forEach(col => ...) of the outlier filter, from column i on
RECURSIVE FilterColumns(_, _, _)
FilterColumns(cur, cols, i) ==
    IF i > Len(cols) THEN cur
    ELSE LET col == cols[i]
             parsed == [r \in 1..Len(cur.data) |-> ParseFloat(ObjGet(cur.data[r].obj, col))]
             numericValues == SelectSeq(parsed, NotNaN)
             filteredData == WithinBounds(cur.data, col, OutlierBounds(numericValues))
         IN  IF Len(numericValues) = 0
             THEN FilterColumns(cur, cols, i + 1)
             ELSE FilterColumns(
                    [data |-> IF Len(filteredData) < Len(cur.data) THEN filteredData ELSE cur.data,
                     stats |-> [cur.stats EXCEPT
                                  !.outlierCount = @ + (Len(cur.data) - Len(filteredData))],
                     threw |-> NoError],
                    cols, i + 1)

\* Mutant: the filter runs whether removeOutliers is set or not.
FilterOutliersAlways(data, stats, options) ==
    FilterColumns([data |-> data, stats |-> stats, threw |-> NoError], ObjKeys(data[1].obj), 1)

FilterOutliers(data, stats, options) ==
    IF options.removeOutliers
    THEN FilterColumns([data |-> data, stats |-> stats, threw |-> NoError],
                       ObjKeys(data[1].obj), 1)
    ELSE [data |-> data, stats |-> stats, threw |-> NoError]

\* ---- Step 5: data types ----

\* The value the coercion writes for a non-missing cell of a column of the
\* given type; the cell itself where nothing is written (a string column,
\* or a date whose toISOString throws inside the try).
CoerceValue(value, type, legacy) ==
    CASE type = "integer" -> ParseInt(value)
      [] type = "float" -> ParseFloat(value)
      [] type = "date" ->
           LET dt == NewDate(value, legacy)
           IN  IF dt.ok THEN Str(IsoDatePart(dt)) ELSE value
      [] OTHER -> value

\* Mutant: a column without a recorded type is converted as an integer column.
RECURSIVE CoerceRowUntyped(_, _, _, _, _, _)
CoerceRowUntyped(obj, newRow, cols, i, renamed, legacy) ==
    IF i > Len(cols) THEN newRow
    ELSE LET col == cols[i]
             known == {j \in 1..Len(renamed) : renamed[j].cleaned = col}
             type == IF known = {} THEN "integer"
                     ELSE renamed[CHOOSE j \in known : \A h \in known : j <= h].type
             value == ObjGet(obj, col)
         IN  IF IsMissing(value)
             THEN CoerceRowUntyped(obj, newRow, cols, i + 1, renamed, legacy)
             ELSE CoerceRowUntyped(obj, ObjSet(newRow, col, CoerceValue(value, type, legacy)),
                                   cols, i + 1, renamed, legacy)

\* columns.forEach(col => ...) on newRow = { ...row }, from column i on
RECURSIVE CoerceRow(_, _, _, _, _, _)
CoerceRow(obj, newRow, cols, i, renamed, legacy) ==
    IF i > Len(cols) THEN newRow
    ELSE LET col == cols[i]
             known == {j \in 1..Len(renamed) : renamed[j].cleaned = col}
             columnInfo == renamed[CHOOSE j \in known : \A h \in known : j <= h]
             value == ObjGet(obj, col)
         IN  IF known = {} \/ IsMissing(value)
             THEN CoerceRow(obj, newRow, cols, i + 1, renamed, legacy)
             ELSE CoerceRow(obj, ObjSet(newRow, col, CoerceValue(value, columnInfo.type, legacy)),
                            cols, i + 1, renamed, legacy)

\* Object.keys(data[0]) throws on an empty array
CoerceTypes(data, stats, options, legacy) ==
    IF options.fixDataTypes /\ data = <<>>
    THEN [data |-> data, stats |-> stats, threw |-> TypeErr]
    ELSE IF options.fixDataTypes
    THEN [data |-> [r \in 1..Len(data) |->
                      Fresh(CoerceRow(data[r].obj, data[r].obj, ObjKeys(data[1].obj), 1,
                                      stats.columnsRenamed, legacy))],
          stats |-> stats, threw |-> NoError]
    ELSE [data |-> data, stats |-> stats, threw |-> NoError]

(***************************************************************************)
(* Inputs: processing options as processingOptionsSchema admits them, and  *)
(* raw datasets as readFileData yields them (rows keyed by the header      *)
(* cells; a CSV cell is a string, a spreadsheet cell may be a number, and  *)
(* a spreadsheet row lacks the keys of its empty cells).                   *)
(***************************************************************************)

Strategies == {"mean", "median", "mode", "constant"}

\* constantValue: z.string().optional().  It is read only under the
\* "constant" strategy, so it is varied only there.
ConstantValues == {Undefined, Str(<<>>), Str(<<"0">>)}

AllOptions ==
    {[removeOutliers |-> ro, fixDataTypes |-> fx, standardizeColumnNames |-> sc,
      missingValueStrategy |-> st, constantValue |-> cv] :
        ro \in BOOLEAN, fx \in BOOLEAN, sc \in BOOLEAN, st \in Strategies, cv \in ConstantValues}

ProcessingOptions == {o \in AllOptions : o.missingValueStrategy # "constant" => o.constantValue = Undefined}

\* a request body without the member missingValueStrategy
NotGiven == "(not given)"

\* a missingValueStrategy that is none of the enumerated ones
UnknownStrategy == "drop"

\* the bodies of the process requests: the options, with the strategy
\* enumerated, left out or unknown
RequestBodies ==
    ProcessingOptions
      \cup {[removeOutliers |-> ro, fixDataTypes |-> fx, standardizeColumnNames |-> sc,
              missingValueStrategy |-> st, constantValue |-> Undefined] :
                ro \in BOOLEAN, fx \in BOOLEAN, sc \in BOOLEAN, st \in {NotGiven, UnknownStrategy}}

\* Mutant: the strategy is not validated.
ParseOptionsUnchecked(body) ==
    [ok |-> TRUE,
     options |-> [body EXCEPT !.missingValueStrategy = IF @ = NotGiven THEN "mean" ELSE @]]

\* processingOptionsSchema.parse(req.body): the strategy defaults to "mean"
\* and must be one of the enumerated ones
ParseOptions(body) ==
    IF body.missingValueStrategy \in Strategies \cup {NotGiven}
    THEN [ok |-> TRUE,
          options |-> [body EXCEPT !.missingValueStrategy = IF @ = NotGiven THEN "mean" ELSE @]]
    ELSE [ok |-> FALSE, options |-> body]

\* cells of the generated datasets
CellValues == {Str(<<>>), Str(<<"1">>), Str(<<"x">>)}

\* cells of the generated datasets with a negative number
SignedCellValues == CellValues \cup {Str(<<"-", "9">>)}

\* cells of the generated spreadsheet datasets: sheet_to_json gives numbers
SheetCellValues == {Str(<<>>), Str(<<"1">>), IntNum(2)}

\* cells of the generated two-column datasets
WideCellValues == {Str(<<>>), Str(<<"1">>), Str(<<"x">>)}

Row1(k, v) == <<[k |-> k, v |-> v]>>

Row2(k1, v1, k2, v2) == <<[k |-> k1, v |-> v1], [k |-> k2, v |-> v2]>>

\* every dataset of 1..MaxRows rows with the one column "A ", and those of
\* fewer rows with a negative number
NarrowDatasets ==
    UNION {{[i \in 1..n |-> Row1(<<"A", " ">>, cells[i])] : cells \in [1..n -> CellValues]} :
             n \in 1..MaxRows}
      \cup
    UNION {{[i \in 1..n |-> Row1(<<"A", " ">>, cells[i])] : cells \in [1..n -> SignedCellValues]} :
             n \in 1..(MaxRows - 1)}

\* every spreadsheet dataset of 1..MaxSheetRows rows with the one column "A "
SheetDatasets ==
    UNION {{[i \in 1..n |-> Row1(<<"A", " ">>, cells[i])] : cells \in [1..n -> SheetCellValues]} :
             n \in 1..MaxSheetRows}

\* every dataset of 1..MaxRows/2 rows with the columns "a" and "B"
WideDatasets ==
    UNION {{[i \in 1..n |-> Row2(<<"a">>, left[i], <<"B">>, right[i])] :
               left \in [1..n -> WideCellValues], right \in [1..n -> WideCellValues]} :
             n \in 1..(MaxRows \div 2)}

S(text) == Str(text)

\* further datasets: larger numeric columns, spreadsheet rows with absent
\* cells, column names that collide once cleaned, dates, null cells
SampleDatasets ==
    { \* the column 1, 2, 3, 4, 100
      <<Row1(<<"v">>, S(<<"1">>)), Row1(<<"v">>, S(<<"2">>)), Row1(<<"v">>, S(<<"3">>)),
        Row1(<<"v">>, S(<<"4">>)), Row1(<<"v">>, S(<<"1", "0", "0">>))>>,
      <<Row1(<<"v">>, S(<<"-", "9">>)), Row1(<<"v">>, S(<<"1">>)), Row1(<<"v">>, S(<<>>)),
        Row1(<<"v">>, S(<<"1">>)), Row1(<<"v">>, S(<<"2">>))>>,
      \* two numbers, a text and a gap
      <<Row1(<<"v">>, S(<<"-", "9">>)), Row1(<<"v">>, S(<<"1">>)), Row1(<<"v">>, S(<<"x">>)),
        Row1(<<"v">>, S(<<>>))>>,
      \* rows whose key sets differ
      <<Row1(<<"a">>, S(<<"1">>)), Row1(<<"b">>, S(<<"2">>))>>,
      <<Row2(<<"a">>, S(<<"1">>), <<"b">>, S(<<"x">>)), Row1(<<"a">>, S(<<"1">>))>>,
      <<Row1(<<"b">>, S(<<"x">>)), Row2(<<"a">>, IntNum(2), <<"b">>, S(<<"x">>))>>,
      \* "A" and "a" both clean to "a"
      <<Row2(<<"A">>, S(<<"1">>), <<"a">>, S(<<"2">>)), Row2(<<"A">>, S(<<"1">>), <<"a">>, S(<<>>))>>,
      \* dates, decimals, null
      <<Row1(<<"d">>, S(<<"2", "0", "2", "0", "-", "0", "1", "-", "1", "5">>)), Row1(<<"d">>, S(<<>>))>>,
      <<Row1(<<"p">>, S(<<"1", ".", "5">>)), Row1(<<"p">>, Null), Row1(<<"p">>, S(<<"2">>))>>,
      <<Row1(<<"n">>, Null), Row1(<<"n">>, Null)>> }

\* the rows of a file with the columns k1 and k2 and the given cells
TwoColumns(k1, cells1, k2, cells2) ==
    [i \in 1..Len(cells1) |-> Row2(k1, cells1[i], k2, cells2[i])]

\* columns in which a value occurs more than once in different rows, and
\* cells that Number() accepts and parseInt does not
RepeatingDatasets ==
    { \* removing the row of 100 changes the quartiles of the second column
      TwoColumns(<<"a">>, <<S(<<"1">>), S(<<"2">>), S(<<"3">>), S(<<"4">>), S(<<"1", "0", "0">>)>>,
                 <<"b">>, <<S(<<"-", "9">>), S(<<"1">>), S(<<"1">>), S(<<"2">>), S(<<"-", "9">>)>>),
      \* the values x, y, x, x and a gap
      TwoColumns(<<"i">>, <<S(<<"1">>), S(<<"2">>), S(<<"3">>), S(<<"4">>), S(<<"5">>)>>,
                 <<"c">>, <<S(<<"x">>), S(<<"y">>), S(<<"x">>), S(<<"x">>), S(<<>>)>>),
      TwoColumns(<<"i">>, <<S(<<"1">>), S(<<"2">>), S(<<"3">>), S(<<"4">>)>>,
                 <<"c">>, <<S(<<"y">>), S(<<"x">>), S(<<"x">>), S(<<>>)>>),
      TwoColumns(<<"i">>, <<S(<<"1">>), S(<<"2">>), S(<<"3">>), S(<<"4">>), S(<<"5">>)>>,
                 <<"c">>, <<S(<<"7">>), S(<<"3">>), S(<<"3">>), Null, S(<<>>)>>),
      TwoColumns(<<"i">>, <<S(<<"1">>), S(<<"2">>), S(<<"3">>), S(<<"4">>)>>,
                 <<"c">>, <<S(<<"2", ".", "5", "0">>), S(<<"2", ".", "5">>), S(<<"1">>), S(<<>>)>>),
      \* a blank cell and the text Infinity: numbers to Number()
      <<Row1(<<"s">>, S(<<" ">>)), Row1(<<"s">>, S(<<"1">>))>>,
      <<Row1(<<"f">>, S(<<"I", "n", "f", "i", "n", "i", "t", "y">>)), Row1(<<"f">>, S(<<"1">>))>> }

\* a column of more rows than type inference samples: the numbers 1, 2, ...
\* and, past the sample, the text x
LongDataset ==
    [i \in 1..(SampleSize + 1) |->
        Row1(<<"w">>, IF i <= SampleSize THEN Str(NatToString(i)) ELSE Str(<<"x">>))]

\* a column of one cell: the 22 digits of 10^21
LargeDataset ==
    <<Row1(<<"g">>, S(<<"1", "0", "0", "0", "0", "0", "0", "0", "0", "0", "0",
                       "0", "0", "0", "0", "0", "0", "0", "0", "0", "0", "0">>))>>

RawDatasets ==
    {<<>>, LongDataset, LargeDataset} \cup NarrowDatasets \cup SheetDatasets \cup WideDatasets \cup SampleDatasets \cup RepeatingDatasets

(***************************************************************************)
(* MemStorage: a stored Dataset.  A nullable field is <<>> (null) or <<v>>.*)
(* The fields that no operation of the model reads (id, userId, file name, *)
(* size, type, createdAt) are left out.                                    *)
(***************************************************************************)

\* createDataset: { ...insertDataset, id, cleanedData: null, cleaningStats:
\* null, isProcessed: false, savedProjectName: null }
CreateDataset(raw) ==
    [rawData |-> raw, cleanedData |-> <<>>, cleaningStats |-> <<>>,
     isProcessed |-> FALSE, savedProjectName |-> <<>>]

\* Mutant: the fields that the updates do not name are reset.
UpdateDatasetResetting(dataset, updates) ==
    [f \in DOMAIN dataset |->
        IF f \in DOMAIN updates THEN updates[f]
        ELSE IF f \in {"id", "rawData"} THEN dataset[f]
        ELSE CreateDataset(dataset.rawData)[f]]

\* updateDataset: { ...dataset, ...updates }
UpdateDataset(dataset, updates) ==
    [f \in DOMAIN dataset |-> IF f \in DOMAIN updates THEN updates[f] ELSE dataset[f]]

\* Mutant: the stats are not written with the cleaned rows.
ProcessUpdatesWithoutStats(cleanedData, cleaningStats) ==
    [cleanedData |-> <<cleanedData>>, isProcessed |-> TRUE]

\* the updates POST /api/process/:id writes
ProcessUpdates(cleanedData, cleaningStats) ==
    [cleanedData |-> <<cleanedData>>, cleaningStats |-> <<cleaningStats>>, isProcessed |-> TRUE]

(***************************************************************************)
(* POST /api/process/:id on an uploaded dataset: cleanData(dataset.rawData,*)
(* options) a stage at a time, then updateDataset and the response.        *)
(***************************************************************************)

VARIABLES
    stored,     \* the Dataset in the store; stored.rawData is the array cleanData is given
    options,    \* the body of the request; once parsed, the ProcessingOptions
    pc,         \* the stage about to run; "done": cleanData returned; "threw": it raised
    data,       \* cleanData's local variable data
    stats,      \* cleanData's local variable stats
    threw,      \* the error raised
    original,   \* the raw dataset as it was uploaded
    log         \* per completed stage: its name and its rows before and after

vars == <<stored, options, pc, data, stats, threw, original, log>>

\* MemStorage and the requests served against it
VARIABLES
    datasets,           \* MemStorage.datasets: the Map from id to Dataset
    datasetCurrentId,   \* MemStorage.datasetCurrentId
    reqs,               \* the bag of requests received, each with its handler's position and locals
    issued,             \* the ids createDataset returned, in the order of the calls
    lastCall            \* the last updateDataset call and what it returned

storeVars == <<datasets, datasetCurrentId, reqs, issued, lastCall>>

NoCall == [op |-> "none", id |-> 0, known |-> FALSE, result |-> <<>>, changed |-> FALSE]

\* the store as constructed, with no request received
StoreIdle ==
    /\ datasets = <<>>
    /\ datasetCurrentId = 1
    /\ reqs = EmptyBag
    /\ issued = <<>>
    /\ lastCall = NoCall

\* the DataProcessing page of one browser tab, mounted once, and the dataset
\* it shows as the server has it
VARIABLES
    processingStarted,  \* useState(false)
    pageDataset,        \* data of useQuery: the dataset as loaded, or not yet loaded
    effectDue,          \* a render has committed whose effect has not run yet
    processTimers,      \* pending setTimeout(() => processMutation.mutate(options), 1000)
    processRequests,    \* POST /api/process/:id requests the page has issued
    inFlight,           \* of these, the ones the server has not handled
    succeeded,          \* answers 200 whose onSuccess has not run
    redirectTimers,     \* pending setTimeout(() => setLocation(...), 500)
    location,           \* the route shown
    fetches,            \* fetches of the dataset query so far
    fetching,           \* a fetch of the dataset query is under way
    serverProcessed     \* isProcessed of the dataset in the store

pageVars ==
    <<processingStarted, pageDataset, effectDue, processTimers, processRequests, inFlight,
      succeeded, redirectTimers, location, fetches, fetching, serverProcessed>>

\* data of the dataset query while it has none
NotLoaded == [loaded |-> FALSE, isProcessed |-> FALSE]

\* the routes of the page and of the dashboard
ProcessRoute == "/process/:id"
DashboardRoute == "/dashboard/:id"

\* the page as mounted, before its first effect
PageMounted ==
    /\ processingStarted = FALSE
    /\ pageDataset = NotLoaded
    /\ effectDue = TRUE
    /\ processTimers = 0
    /\ processRequests = 0
    /\ inFlight = 0
    /\ succeeded = 0
    /\ redirectTimers = 0
    /\ location = ProcessRoute
    /\ fetches = 0
    /\ fetching = FALSE

\* no page is open
PageIdle == PageMounted /\ serverProcessed = FALSE

NoStats ==
    [totalRows |-> 0, totalColumns |-> 0, duplicatesRemoved |-> 0, nullValuesFixed |-> 0,
     columnsRenamed |-> <<>>, dataTypeSummary |-> <<>>, outlierCount |-> 0]

\* Mutant: the missing values are filled before the duplicates are removed.
StageOrderImputeFirst == <<"standardize", "impute", "dedupe", "outliers", "coerce">>

\* the stages in the order cleanData runs them
StageOrder == <<"standardize", "dedupe", "impute", "outliers", "coerce">>

\* the value of pc after the stage
After(stage) ==
    LET i == CHOOSE j \in 1..Len(StageOrder) : StageOrder[j] = stage
    IN  IF i = Len(StageOrder) THEN "done" ELSE StageOrder[i + 1]

Init ==
    /\ original \in RawDatasets
    /\ stored = CreateDataset(original)
    /\ options \in RequestBodies
    /\ pc = "start"
    /\ data = <<>>
    /\ stats = NoStats
    /\ threw = NoError
    /\ log = <<>>
    /\ StoreIdle
    /\ PageIdle

\* The handler parses the options (a ZodError when they are invalid), gets
\* the dataset and calls cleanData: the guard, the stats object
\* (Object.keys(rawData[0]) throws when there is no row) and
\* data = [...rawData].
Enter ==
    /\ pc = "start"
    /\ IF ~ParseOptions(options).ok
       THEN /\ pc' = "threw"
            /\ threw' = ZodErr
            /\ UNCHANGED <<data, stats, options>>
       ELSE IF InputRejected(stored.rawData)
       THEN /\ pc' = "threw"
            /\ threw' = InvalidData
            /\ options' = ParseOptions(options).options
            /\ UNCHANGED <<data, stats>>
       ELSE IF stored.rawData = <<>>
       THEN /\ pc' = "threw"
            /\ threw' = TypeErr
            /\ options' = ParseOptions(options).options
            /\ UNCHANGED <<data, stats>>
       ELSE /\ pc' = StageOrder[1]
            /\ data' = ShallowCopy(stored.rawData)
            /\ stats' = InitialStats(stored.rawData)
            /\ options' = ParseOptions(options).options
            /\ UNCHANGED threw
    /\ UNCHANGED <<stored, original, log>>
    /\ UNCHANGED <<storeVars, pageVars>>

\* The stage `stage` ran from the current state with outcome res.
Finish(stage, res) ==
    /\ stored' = [stored EXCEPT !.rawData = SyncRaw(@, res.data)]
    /\ UNCHANGED <<options, original>>
    /\ UNCHANGED <<storeVars, pageVars>>
    /\ IF res.threw # NoError
       THEN /\ pc' = "threw"
            /\ threw' = res.threw
            /\ data' = <<>>
            /\ stats' = NoStats
            /\ UNCHANGED log
       ELSE /\ pc' = After(stage)
            /\ data' = res.data
            /\ stats' = res.stats
            /\ log' = Append(log, [stage |-> stage, before |-> Objs(data), after |-> Objs(res.data)])
            /\ UNCHANGED threw

StandardizeStep ==
    /\ pc = "standardize"
    /\ \E legacy \in BOOLEAN : Finish("standardize", Standardize(data, stats, options, legacy))

DedupeStep ==
    /\ pc = "dedupe"
    /\ Finish("dedupe", Dedupe(data, stats))

ImputeStep ==
    /\ pc = "impute"
    /\ Finish("impute", Impute(data, stats, options))

FilterOutliersStep ==
    /\ pc = "outliers"
    /\ Finish("outliers", FilterOutliers(data, stats, options))

CoerceTypesStep ==
    /\ pc = "coerce"
    /\ \E legacy \in BOOLEAN : Finish("coerce", CoerceTypes(data, stats, options, legacy))

\* cleanData returned: await storage.updateDataset(...), then res.json(...)
Commit ==
    /\ pc = "done"
    /\ stored' = UpdateDataset(stored, ProcessUpdates(Objs(data), stats))
    /\ pc' = "responded"
    /\ UNCHANGED <<options, data, stats, threw, original, log>>
    /\ UNCHANGED <<storeVars, pageVars>>

\* the handler raised: the catch block answers 400 to a ZodError and 500 to
\* any other error
Fail ==
    /\ pc = "threw"
    /\ pc' = "failed"
    /\ UNCHANGED <<stored, options, data, stats, threw, original, log>>
    /\ UNCHANGED <<storeVars, pageVars>>

Next ==
    \/ Enter
    \/ StandardizeStep
    \/ DedupeStep
    \/ ImputeStep
    \/ FilterOutliersStep
    \/ CoerceTypesStep
    \/ Commit
    \/ Fail

Spec == Init /\ [][Next]_<<vars, storeVars, pageVars>>

(***************************************************************************)
(* MemStorage and the handlers of the upload, process, save-project and    *)
(* read requests, run concurrently.  A handler runs without interruption   *)
(* from one await to the next; the body of a MemStorage method has no      *)
(* await, so it runs as a whole when it is called.  deleteDataset is       *)
(* called by no route; it is a call on the exported storage.               *)
(***************************************************************************)

\* requests received in a run
MaxRequests == 3

\* datasets created in a run
MaxDatasets == 2

\* the ids the requests name
RequestIds == 1..MaxDatasets

\* the raw rows of the uploaded files: an empty file, and a column with a
\* duplicate and a gap
StoreRaws ==
    {<<>>,
     <<Row1(<<"A", " ">>, Str(<<"1">>)), Row1(<<"A", " ">>, Str(<<"1">>)),
       Row1(<<"A", " ">>, Str(<<>>))>>}

\* the bodies of the process requests
StoreBodies ==
    {[removeOutliers |-> FALSE, fixDataTypes |-> FALSE, standardizeColumnNames |-> TRUE,
      missingValueStrategy |-> "constant", constantValue |-> Str(<<"0">>)],
     [removeOutliers |-> FALSE, fixDataTypes |-> TRUE, standardizeColumnNames |-> FALSE,
      missingValueStrategy |-> NotGiven, constantValue |-> Undefined],
     [removeOutliers |-> FALSE, fixDataTypes |-> FALSE, standardizeColumnNames |-> FALSE,
      missingValueStrategy |-> UnknownStrategy, constantValue |-> Undefined]}

\* the project names of the save-project requests
ProjectNames == {<<"p">>, <<"q">>, <<>>}

\* saveProjectSchema: projectName: z.string().min(1)
ValidProjectName(name) == Len(name) >= 1

\* this.datasets.get(id): <<>> is undefined
GetDataset(map, id) == IF id \in DOMAIN map THEN <<map[id]>> ELSE <<>>

\* this.datasets.set(id, dataset)
MapSet(map, id, dataset) ==
    [i \in DOMAIN map \cup {id} |-> IF i = id THEN dataset ELSE map[i]]

\* this.datasets.delete(id)
MapDelete(map, id) == [i \in DOMAIN map \ {id} |-> map[i]]

\* Mutant: the counter is read and not incremented.
AllocateIdWithoutIncrement(currentId) == [id |-> currentId, next |-> currentId]

\* const id = this.datasetCurrentId++
AllocateId(currentId) == [id |-> currentId, next |-> currentId + 1]

\* createDataset: the Dataset stored under id
NewDataset(insertDataset, id) ==
    [id |-> id, rawData |-> insertDataset, cleanedData |-> <<>>, cleaningStats |-> <<>>,
     isProcessed |-> FALSE, savedProjectName |-> <<>>]

\* updateDataset(id, updates): the Map afterwards and the value returned
\* (<<>> is undefined)
StorageUpdate(map, id, updates) ==
    IF id \notin DOMAIN map
    THEN [map |-> map, result |-> <<>>]
    ELSE [map |-> MapSet(map, id, UpdateDataset(map[id], updates)),
          result |-> <<UpdateDataset(map[id], updates)>>]

\* the updates POST /api/save-project writes
SaveUpdates(projectName) == [savedProjectName |-> <<projectName>>]

\* cleanData after the column names: the duplicates, unless a stage raised
ThenDedupe(res) == IF res.threw # NoError THEN res ELSE Dedupe(res.data, res.stats)

\* cleanData after the duplicates: the missing values
ThenImpute(res, opts) ==
    IF res.threw # NoError THEN res ELSE Impute(res.data, res.stats, opts)

\* cleanData after the missing values: the outliers
ThenFilterOutliers(res, opts) ==
    IF res.threw # NoError THEN res ELSE FilterOutliers(res.data, res.stats, opts)

\* cleanData after the outliers: the data types
ThenCoerceTypes(res, opts, legacy) ==
    IF res.threw # NoError THEN res ELSE CoerceTypes(res.data, res.stats, opts, legacy)

\* cleanData(rawData, options) as a whole: the rows and stats it returns, or
\* the error it raises
CleanData(rawData, opts, legacy) ==
    IF InputRejected(rawData)
    THEN [data |-> <<>>, stats |-> NoStats, threw |-> InvalidData]
    ELSE ThenCoerceTypes(
            ThenFilterOutliers(
                ThenImpute(
                    ThenDedupe(
                        Standardize(ShallowCopy(rawData), InitialStats(rawData), opts, legacy)),
                    opts),
                opts),
            opts, legacy)

\* a response body with no field: a field that is sent holds <<v>>, v being
\* <<>> for null and <<x>> for x where the field can be null
NoBody ==
    [id |-> <<>>, isProcessed |-> <<>>, savedProjectName |-> <<>>, cleanedData |-> <<>>,
     stats |-> <<>>]

\* the options of a request that is not a process request
NoOptions ==
    [removeOutliers |-> FALSE, fixDataTypes |-> FALSE, standardizeColumnNames |-> FALSE,
     missingValueStrategy |-> NotGiven, constantValue |-> Undefined]

\* a request as it is received: the dataset id, the file's rows, the
\* processing options and the project name it carries, the position of its
\* handler, the dataset the handler got, and the status and body it answered
NewRequest(kind, id) ==
    [kind |-> kind, id |-> id, raw |-> <<>>, options |-> NoOptions, name |-> <<>>,
     pos |-> "start", found |-> <<>>, status |-> 0, sent |-> NoBody]

\* the record of a call of updateDataset
Call(op, id, before, after, result) ==
    [op |-> op, id |-> id, known |-> id \in DOMAIN before, result |-> result,
     changed |-> after # before]

\* a request arrives
Receive(r) ==
    /\ BagCardinality(reqs) < MaxRequests
    /\ reqs' = reqs (+) SetToBag({r})

\* the handler of request r moves on, r becoming next
Advance(r, next) == reqs' = (reqs (-) SetToBag({r})) (+) SetToBag({next})

\* the handler of request r answers with status and body
Answer(r, status, body) ==
    Advance(r, [r EXCEPT !.pos = "done", !.status = status, !.sent = body])

\* the requests of a kind whose handler is at a position
Waiting(kind, pos) == {r \in BagToSet(reqs) : r.kind = kind /\ r.pos = pos}

\* the upload requests received, with their multiplicity
Uploads == [r \in {x \in BagToSet(reqs) : x.kind = "upload"} |-> reqs[r]]

\* POST /api/upload up to await readFileData(...)
UploadStart ==
    /\ BagCardinality(Uploads) < MaxDatasets
    /\ \E raw \in StoreRaws : Receive([NewRequest("upload", 0) EXCEPT !.raw = raw])
    /\ UNCHANGED <<datasets, datasetCurrentId, issued, lastCall>>
    /\ UNCHANGED <<vars, pageVars>>

\* POST /api/upload: await storage.createDataset(...), new being the id and
\* the counter afterwards
UploadStore(r, new) ==
    /\ datasetCurrentId' = new.next
    /\ datasets' = MapSet(datasets, new.id, NewDataset(r.raw, new.id))
    /\ issued' = Append(issued, new.id)
    /\ Advance(r, [r EXCEPT !.pos = "updated", !.id = new.id,
                            !.found = <<NewDataset(r.raw, new.id)>>])

\* POST /api/upload from the file's rows to await storage.createDataset(...)
UploadCreate ==
    /\ \E r \in Waiting("upload", "start") : UploadStore(r, AllocateId(datasetCurrentId))
    /\ UNCHANGED lastCall
    /\ UNCHANGED <<vars, pageVars>>

\* POST /api/upload: res.status(201).json(...)
UploadRespond ==
    /\ \E r \in Waiting("upload", "updated") : Answer(r, 201, [NoBody EXCEPT !.id = <<r.found[1].id>>])
    /\ UNCHANGED <<datasets, datasetCurrentId, issued, lastCall>>
    /\ UNCHANGED <<vars, pageVars>>

\* POST /api/process/:id up to await storage.getDataset(datasetId); invalid
\* options are answered 400
ProcessStart ==
    /\ \E id \in RequestIds : \E body \in StoreBodies :
          Receive(IF ParseOptions(body).ok
                  THEN [NewRequest("process", id) EXCEPT
                          !.options = ParseOptions(body).options, !.pos = "loaded",
                          !.found = GetDataset(datasets, id)]
                  ELSE [NewRequest("process", id) EXCEPT
                          !.options = body, !.pos = "done", !.status = 400])
    /\ UNCHANGED <<datasets, datasetCurrentId, issued, lastCall>>
    /\ UNCHANGED <<vars, pageVars>>

\* POST /api/process/:id: await storage.updateDataset(datasetId, {...}), upd
\* being what the call does
ProcessStore(r, res, upd) ==
    /\ datasets' = upd.map
    /\ lastCall' = Call("updateDataset", r.id, datasets, upd.map, upd.result)
    /\ Advance(r, [r EXCEPT !.pos = "updated",
                            !.sent = [NoBody EXCEPT
                                        !.stats = << <<res.stats>> >>,
                                        !.cleanedData = << <<Objs(res.data)>> >>]])

\* POST /api/process/:id with res the outcome of cleanData(dataset.rawData,
\* options): 500 when it raised
ProcessCleaned(r, res) ==
    IF res.threw # NoError
    THEN Answer(r, 500, NoBody) /\ UNCHANGED <<datasets, lastCall>>
    ELSE ProcessStore(r, res, StorageUpdate(datasets, r.id,
                                            ProcessUpdates(Objs(res.data), res.stats)))

\* POST /api/process/:id from the dataset to await storage.updateDataset(...):
\* 404 without a dataset
ProcessClean ==
    /\ \E r \in Waiting("process", "loaded") :
          IF r.found = <<>>
          THEN Answer(r, 404, NoBody) /\ UNCHANGED <<datasets, lastCall>>
          ELSE \E legacy \in BOOLEAN :
                 ProcessCleaned(r, CleanData(r.found[1].rawData, r.options, legacy))
    /\ UNCHANGED <<datasetCurrentId, issued>>
    /\ UNCHANGED <<vars, pageVars>>

\* POST /api/process/:id: res.json(...)
ProcessRespond ==
    /\ \E r \in Waiting("process", "updated") : Answer(r, 200, r.sent)
    /\ UNCHANGED <<datasets, datasetCurrentId, issued, lastCall>>
    /\ UNCHANGED <<vars, pageVars>>

\* POST /api/save-project up to await storage.getDataset(datasetId); an
\* empty project name is answered 400
SaveStart ==
    /\ \E id \in RequestIds : \E name \in ProjectNames :
          Receive(IF ValidProjectName(name)
                  THEN [NewRequest("save", id) EXCEPT
                          !.name = name, !.pos = "loaded", !.found = GetDataset(datasets, id)]
                  ELSE [NewRequest("save", id) EXCEPT
                          !.name = name, !.pos = "done", !.status = 400])
    /\ UNCHANGED <<datasets, datasetCurrentId, issued, lastCall>>
    /\ UNCHANGED <<vars, pageVars>>

\* POST /api/save-project: await storage.updateDataset(datasetId, {...}), upd
\* being what the call does
SaveStore(r, upd) ==
    /\ datasets' = upd.map
    /\ lastCall' = Call("updateDataset", r.id, datasets, upd.map, upd.result)
    /\ Advance(r, [r EXCEPT !.pos = "updated"])

\* POST /api/save-project from the dataset to await storage.updateDataset(...):
\* 404 without a dataset
SaveUpdate ==
    /\ \E r \in Waiting("save", "loaded") :
          IF r.found = <<>>
          THEN Answer(r, 404, NoBody) /\ UNCHANGED <<datasets, lastCall>>
          ELSE SaveStore(r, StorageUpdate(datasets, r.id, SaveUpdates(r.name)))
    /\ UNCHANGED <<datasetCurrentId, issued>>
    /\ UNCHANGED <<vars, pageVars>>

\* POST /api/save-project: res.json(...)
SaveRespond ==
    /\ \E r \in Waiting("save", "updated") : Answer(r, 200, [NoBody EXCEPT !.id = <<r.id>>, !.savedProjectName = << <<r.name>> >>])
    /\ UNCHANGED <<datasets, datasetCurrentId, issued, lastCall>>
    /\ UNCHANGED <<vars, pageVars>>

\* GET /api/datasets/:id up to await storage.getDataset(datasetId)
ReadStart ==
    /\ \E id \in RequestIds :
          Receive([NewRequest("read", id) EXCEPT
                     !.pos = "loaded", !.found = GetDataset(datasets, id)])
    /\ UNCHANGED <<datasets, datasetCurrentId, issued, lastCall>>
    /\ UNCHANGED <<vars, pageVars>>

\* GET /api/datasets/:id: 404, or res.json(...) of the dataset it got (the
\* previews are the first 10 rows, which is every row here)
ReadRespond ==
    /\ \E r \in Waiting("read", "loaded") :
          IF r.found = <<>>
          THEN Answer(r, 404, NoBody)
          ELSE Answer(r, 200,
                      [id |-> <<r.found[1].id>>,
                       isProcessed |-> <<r.found[1].isProcessed>>,
                       savedProjectName |-> <<r.found[1].savedProjectName>>,
                       cleanedData |-> <<r.found[1].cleanedData>>,
                       stats |-> <<r.found[1].cleaningStats>>])
    /\ UNCHANGED <<datasets, datasetCurrentId, issued, lastCall>>
    /\ UNCHANGED <<vars, pageVars>>

\* storage.deleteDataset(id)
DeleteDataset ==
    /\ \E id \in RequestIds : datasets' = MapDelete(datasets, id)
    /\ UNCHANGED <<datasetCurrentId, reqs, issued, lastCall>>
    /\ UNCHANGED <<vars, pageVars>>

\* no processing request is being served
PipelineIdle ==
    /\ original = <<>>
    /\ stored = CreateDataset(<<>>)
    /\ options = [removeOutliers |-> FALSE, fixDataTypes |-> TRUE,
                   standardizeColumnNames |-> TRUE, missingValueStrategy |-> NotGiven,
                   constantValue |-> Undefined]
    /\ pc = "idle"
    /\ data = <<>>
    /\ stats = NoStats
    /\ threw = NoError
    /\ log = <<>>

StoreInit == StoreIdle /\ PipelineIdle /\ PageIdle

StoreNext ==
    \/ UploadStart
    \/ UploadCreate
    \/ UploadRespond
    \/ ProcessStart
    \/ ProcessClean
    \/ ProcessRespond
    \/ SaveStart
    \/ SaveUpdate
    \/ SaveRespond
    \/ ReadStart
    \/ ReadRespond
    \/ DeleteDataset

StoreSpec == StoreInit /\ [][StoreNext]_<<vars, storeVars, pageVars>>

(***************************************************************************)
(* The DataProcessing page.  A render commits the state and the query data *)
(* it was made with, and its effect then runs when [dataset,               *)
(* processingStarted, id] differ from the last run: a state update made by *)
(* the effect is part of the next render.  The timers are never cleared,   *)
(* so they fire whether or not the page is still shown.                    *)
(***************************************************************************)

\* fetches of the dataset query of one page
MaxFetches == 3

\* the dataset query starts a fetch (first load, refetch or invalidation)
\* unless one is under way
FetchStart ==
    /\ location = ProcessRoute
    /\ ~fetching
    /\ fetches < MaxFetches
    /\ fetches' = fetches + 1
    /\ fetching' = TRUE
    /\ UNCHANGED <<processingStarted, pageDataset, effectDue, processTimers, processRequests,
                   inFlight, succeeded, redirectTimers, location, serverProcessed>>
    /\ UNCHANGED <<vars, storeVars>>

\* GET /api/datasets/:id answers with the dataset as stored; data equal to
\* the data before may or may not be a new object to the effect
FetchResolves ==
    /\ fetching
    /\ fetching' = FALSE
    /\ pageDataset' = [loaded |-> TRUE, isProcessed |-> serverProcessed]
    /\ \E sameObject \in BOOLEAN :
          effectDue' = IF sameObject /\ pageDataset' = pageDataset THEN effectDue ELSE TRUE
    /\ UNCHANGED <<processingStarted, processTimers, processRequests, inFlight, succeeded,
                   redirectTimers, location, fetches, serverProcessed>>
    /\ UNCHANGED <<vars, storeVars>>

\* dataset && !processingStarted && !dataset.isProcessed
StartsProcessing == pageDataset.loaded /\ ~processingStarted /\ ~pageDataset.isProcessed

\* the useEffect callback, run while the page is shown
RunEffect ==
    /\ location = ProcessRoute
    /\ effectDue
    /\ IF StartsProcessing
       THEN /\ processingStarted' = TRUE
            /\ processTimers' = processTimers + 1
            /\ effectDue' = TRUE
            /\ UNCHANGED location
       ELSE IF pageDataset.loaded /\ pageDataset.isProcessed
       THEN /\ location' = DashboardRoute
            /\ effectDue' = FALSE
            /\ UNCHANGED <<processingStarted, processTimers>>
       ELSE /\ effectDue' = FALSE
            /\ UNCHANGED <<processingStarted, processTimers, location>>
    /\ UNCHANGED <<pageDataset, processRequests, inFlight, succeeded, redirectTimers,
                   fetches, fetching, serverProcessed>>
    /\ UNCHANGED <<vars, storeVars>>

\* the 1000 ms timer fires: processMutation.mutate(options) sends
\* POST /api/process/:id
ProcessTimerFires ==
    /\ processTimers > 0
    /\ processTimers' = processTimers - 1
    /\ processRequests' = processRequests + 1
    /\ inFlight' = inFlight + 1
    /\ UNCHANGED <<processingStarted, pageDataset, effectDue, succeeded, redirectTimers,
                   location, fetches, fetching, serverProcessed>>
    /\ UNCHANGED <<vars, storeVars>>

\* the server handles a process request of the page and answers 200
ProcessSucceeds ==
    /\ inFlight > 0
    /\ inFlight' = inFlight - 1
    /\ serverProcessed' = TRUE
    /\ succeeded' = succeeded + 1
    /\ UNCHANGED <<processingStarted, pageDataset, effectDue, processTimers, processRequests,
                   redirectTimers, location, fetches, fetching>>
    /\ UNCHANGED <<vars, storeVars>>

\* the server answers a process request of the page with an error: onError
\* shows a toast
ProcessFails ==
    /\ inFlight > 0
    /\ inFlight' = inFlight - 1
    /\ UNCHANGED <<processingStarted, pageDataset, effectDue, processTimers, processRequests,
                   succeeded, redirectTimers, location, fetches, fetching, serverProcessed>>
    /\ UNCHANGED <<vars, storeVars>>

\* onSuccess: invalidateQueries (the refetch is a FetchStart) and
\* setTimeout(() => setLocation(`/dashboard/${id}`), 500)
OnSuccess ==
    /\ succeeded > 0
    /\ succeeded' = succeeded - 1
    /\ redirectTimers' = redirectTimers + 1
    /\ UNCHANGED <<processingStarted, pageDataset, effectDue, processTimers, processRequests,
                   inFlight, location, fetches, fetching, serverProcessed>>
    /\ UNCHANGED <<vars, storeVars>>

\* the 500 ms timer fires: setLocation(`/dashboard/${id}`)
RedirectTimerFires ==
    /\ redirectTimers > 0
    /\ redirectTimers' = redirectTimers - 1
    /\ location' = DashboardRoute
    /\ UNCHANGED <<processingStarted, pageDataset, effectDue, processTimers, processRequests,
                   inFlight, succeeded, fetches, fetching, serverProcessed>>
    /\ UNCHANGED <<vars, storeVars>>

\* POST /api/process/:id from another client or another mount of the page
\* is handled
ProcessedElsewhere ==
    /\ ~serverProcessed
    /\ serverProcessed' = TRUE
    /\ UNCHANGED <<processingStarted, pageDataset, effectDue, processTimers, processRequests,
                   inFlight, succeeded, redirectTimers, location, fetches, fetching>>
    /\ UNCHANGED <<vars, storeVars>>

\* the page is opened on a dataset that is processed or not
PageInit == StoreIdle /\ PipelineIdle /\ PageMounted /\ serverProcessed \in BOOLEAN

PageNext ==
    \/ FetchStart
    \/ FetchResolves
    \/ RunEffect
    \/ ProcessTimerFires
    \/ ProcessSucceeds
    \/ ProcessFails
    \/ OnSuccess
    \/ RedirectTimerFires
    \/ ProcessedElsewhere

PageSpec == PageInit /\ [][PageNext]_<<vars, storeVars, pageVars>>

(***************************************************************************)
(* Properties                                                              *)
(***************************************************************************)

\* the log entries of a stage
StageEntries(stage) == {i \in 1..Len(log) : log[i].stage = stage}

KeySet(obj) == {obj[i].k : i \in 1..Len(obj)}

\* every row has the column keys of the first row
Uniform(raw) == \A i \in 1..Len(raw) : KeySet(raw[i]) = KeySet(raw[1])

\* the rows of `rows` at the indices in idx, in order
Pick(rows, idx) ==
    LET Picked(e) == e.at \in idx
    IN  Unindexed(SelectSeq(Indexed(rows), Picked))

\* the rows that no earlier row serializes like
FirstOccurrences(rows) ==
    {i \in 1..Len(rows) : \A j \in 1..(i - 1) : Stringify(rows[j]) # Stringify(rows[i])}

\* C1: the cleaned dataset has at most as many rows as the raw dataset: no
\* stage adds a row, and standardize, impute and coerce keep the row count.
C1_RowCountNeverGrows ==
    /\ \A i \in 1..Len(log) :
         /\ Len(log[i].after) <= Len(log[i].before)
         /\ log[i].stage \in {"standardize", "impute", "coerce"}
              => Len(log[i].after) = Len(log[i].before)
    /\ pc = "done" => Len(data) <= Len(original)
    /\ pc = "responded" => Len(stored.cleanedData[1]) <= Len(original)

\* a run in which dedupe and the outlier filter both removed rows and the
\* imputation replaced cells
C1_Witness ==
    /\ pc = "done"
    /\ stats.duplicatesRemoved > 0
    /\ stats.outlierCount > 0
    /\ stats.nullValuesFixed > 0
    /\ Len(data) < Len(original)

\* C2: the raw dataset is never mutated: at every point of the request,
\* also after cleanData threw and after updateDataset, the stored rawData
\* holds the rows, keys and cell values that were uploaded.
C2_RawDataNeverMutated == stored.rawData = original

\* a committed run that replaced cells of rows it shared with rawData
C2_Witness ==
    /\ pc = "responded"
    /\ ~options.standardizeColumnNames
    /\ stored.cleaningStats[1].nullValuesFixed > 0
    /\ stored.cleanedData[1] # original
    /\ stored.isProcessed

\* the missing cells of the rows `before` in the columns cols are not
\* missing in the rows `after`
MissingCellsFilled(before, after, cols) ==
    \A r \in 1..Len(before) : \A c \in 1..Len(before[r]) :
        (before[r][c].k \in cols /\ IsMissing(before[r][c].v))
            => ~IsMissing(ObjGet(after[r], before[r][c].k))

\* C3 as stated: with any strategy, constantValue supplied or not, no cell
\* that was missing before the imputation stage is missing after it.
C3_AsClaimed ==
    \A i \in StageEntries("impute") :
        MissingCellsFilled(log[i].before, log[i].after,
                           UNION {KeySet(log[i].before[r]) : r \in 1..Len(log[i].before)})

\* C3 amended: with strategy mean, median or mode, or constant with a
\* non-empty constantValue, no cell of a column of the first row that was
\* missing before the imputation stage is missing after it.
C3_ImputationCompleteness ==
    (options.missingValueStrategy # "constant" \/ Truthy(options.constantValue))
        => \A i \in StageEntries("impute") :
              MissingCellsFilled(log[i].before, log[i].after, KeySet(log[i].before[1]))

\* an imputation by the median that replaced two cells or more
C3_Witness ==
    /\ options.missingValueStrategy = "median"
    /\ StageEntries("impute") # {}
    /\ pc = "outliers"
    /\ stats.nullValuesFixed >= 2

\* the cells are strings, numbers or null
PlainCells(raw) ==
    \A r \in 1..Len(raw) : \A c \in 1..Len(raw[r]) : raw[r][c].v.t \in {"string", "number", "null"}

\* C4 as stated: on a non-empty uniform dataset of strings, numbers, null
\* and "" cleanData never raises.
C4_AsClaimed ==
    (original # <<>> /\ Uniform(original) /\ PlainCells(original)) => pc \notin {"threw", "failed"}

\* C5: on an empty raw dataset cleanData raises its invalid-data error and
\* yields neither rows nor stats, and the stored dataset stays as created.
C5_EmptyInputRejected ==
    (original = <<>> /\ ParseOptions(options).ok) =>
        /\ pc \in {"start", "threw", "failed"}
        /\ pc # "start" => threw = InvalidData
        /\ data = <<>> /\ stats = NoStats /\ log = <<>>
        /\ stored.rawData = <<>>
        /\ stored.cleanedData = <<>>
        /\ stored.cleaningStats = <<>>
        /\ stored.isProcessed = FALSE

\* the request for an empty dataset was answered with the failure
C5_Witness == original = <<>> /\ pc = "failed" /\ threw = InvalidData

\* C6 as stated: a raw dataset with a row whose keys differ from the first
\* row's is rejected, and no cleaned dataset is produced.
C6_AsClaimed == ~Uniform(original) => pc \notin {"done", "responded"}

\* C7: dedupe keeps exactly the rows that no earlier row serializes like,
\* in their original order.
C7_FirstOccurrencesKept ==
    \A i \in StageEntries("dedupe") :
        log[i].after = Pick(log[i].before, FirstOccurrences(log[i].before))

\* a duplicate of the first row, separated from it by a different row, was dropped
C7_Witness ==
    \E i \in StageEntries("dedupe") :
        /\ Len(log[i].before) >= 3
        /\ Stringify(log[i].before[1]) = Stringify(log[i].before[3])
        /\ Stringify(log[i].before[1]) # Stringify(log[i].before[2])
        /\ Len(log[i].after) = 2

\* C8: duplicatesRemoved is the raw row count minus the rows leaving dedupe.
C8_DuplicatesRemovedCount ==
    /\ pc \notin {"threw", "failed"} =>
         \A i \in StageEntries("dedupe") :
             stats.duplicatesRemoved = Len(original) - Len(log[i].after)
    /\ pc = "responded" =>
         \A i \in StageEntries("dedupe") :
             stored.cleaningStats[1].duplicatesRemoved = Len(original) - Len(log[i].after)

\* a committed run that counted two duplicates
C8_Witness ==
    /\ pc = "responded"
    /\ stored.cleaningStats[1].duplicatesRemoved = 2
    /\ Len(stored.cleanedData[1]) >= 2

\* C9: dedupe applied to its own output removes nothing and keeps the order.
C9_DedupeIdempotent ==
    \A i \in StageEntries("dedupe") :
        LET again == Dedupe(ShallowCopy(log[i].after), NoStats)
        IN  /\ Objs(again.data) = log[i].after
            /\ again.stats.duplicatesRemoved = 0

\* three or more rows that all serialize alike were reduced to one
C9_Witness ==
    \E i \in StageEntries("dedupe") :
        /\ Len(log[i].before) >= 3
        /\ Len(log[i].after) = 1

\* the number of different serializations among rows
Distinct(rows) == Cardinality({Stringify(rows[i]) : i \in 1..Len(rows)})

\* C10: the stages run in the order standardize, dedupe, impute, outliers,
\* coerce, each on the output of the one before; the duplicates are those of
\* the standardized rows, so the result has one row per different
\* standardized row, less the outliers.
C10_FixedStageOrder ==
    /\ \A i \in 1..Len(log) :
         log[i].stage = <<"standardize", "dedupe", "impute", "outliers", "coerce">>[i]
    /\ Len(log) >= 1 => log[1].before = original
    /\ \A i \in 1..(Len(log) - 1) : log[i + 1].before = log[i].after
    /\ pc = "done" =>
         /\ Len(log) = 5
         /\ Objs(data) = log[5].after
         /\ Len(data) = Distinct(log[1].after) - stats.outlierCount

\* two rows that differed when duplicates were looked for are identical in
\* the result
C10_Witness ==
    /\ pc = "done"
    /\ \E i, j \in 1..Len(data) :
         /\ i < j
         /\ data[i].obj = data[j].obj
         /\ Len(log[2].after) = Len(data)
         /\ log[2].after[i] # log[2].after[j]

\* ---- the outlier filter ----

\* the rows whose cell in column col parses as a number
Parseable(rows, col) == {i \in 1..Len(rows) : ~IsNaN(ParseFloat(ObjGet(rows[i], col)))}

\* the parseable cells of column col: pairs of a row and its parsed value
Parsed(rows, col) == {<<i, ParseFloat(ObjGet(rows[i], col))>> : i \in Parseable(rows, col)}

\* sorted[k] (k counted from 0) of the values of the cells: the value with
\* at most k values below it and more than k values not above it
KthSmallest(cells, k) ==
    (CHOOSE p \in cells :
        /\ Cardinality({q \in cells : NumLess(q[2], p[2])}) <= k
        /\ Cardinality({q \in cells : ~NumLess(p[2], q[2])}) > k)[2]

\* [Q1 - 1.5 * (Q3 - Q1), Q3 + 1.5 * (Q3 - Q1)]
Fences(q1, q3) ==
    [lower |-> NumSub(q1, NumMul(Num(3, 2), NumSub(q3, q1))),
     upper |-> NumAdd(q3, NumMul(Num(3, 2), NumSub(q3, q1)))]

\* the fences of n cells, with Q1 = sorted[floor(n / 4)] and
\* Q3 = sorted[floor(3 n / 4)]
FencesOf(cells) ==
    Fences(KthSmallest(cells, Cardinality(cells) \div 4),
           KthSmallest(cells, (3 * Cardinality(cells)) \div 4))

\* the fences over the parseable cells of column col
TukeyFences(rows, col) == FencesOf(Parsed(rows, col))

\* the rows outside the fences f in column col; a cell that does not parse
\* is outside no fence
Beyond(rows, col, f) ==
    {p[1] : p \in {q \in Parsed(rows, col) : NumLess(q[2], f.lower) \/ NumLess(f.upper, q[2])}}

\* the rows that one pass over column col leaves
OnePass(rows, col) ==
    IF Parseable(rows, col) = {} THEN rows
    ELSE Pick(rows, (1..Len(rows)) \ Beyond(rows, col, TukeyFences(rows, col)))

\* the rows left by the passes over the columns cols, one after the other
AllPasses(rows, cols) ==
    LET F[k \in 0..Len(cols)] == IF k = 0 THEN rows ELSE OnePass(F[k - 1], cols[k])
    IN  F[Len(cols)]

\* the rows left when every column's fences are taken over the rows that
\* entered the stage
PassesFromEntry(rows, cols) ==
    Pick(rows, {i \in 1..Len(rows) :
                  \A c \in 1..Len(cols) :
                      Parseable(rows, cols[c]) # {} =>
                          i \notin Beyond(rows, cols[c], TukeyFences(rows, cols[c]))})

\* the text of the cells of column col
ColumnText(rows, col) == [i \in 1..Len(rows) |-> ToStr(ObjGet(rows[i], col))]

\* C11: with removeOutliers, each column's pass takes the parseable values
\* of the current rows, Q1 = sorted[floor(n/4)] and Q3 = sorted[floor(3n/4)],
\* and removes exactly the rows whose parsed value lies outside
\* [Q1 - 1.5 IQR, Q3 + 1.5 IQR]; rows whose cell does not parse stay, and
\* outlierCount is the number of removed rows.  For the column 1, 2, 3, 4,
\* 100 only the row of 100 goes and outlierCount is 1.
C11_OutlierFilter ==
    options.removeOutliers =>
        \A i \in StageEntries("outliers") :
            LET before == log[i].before
                after == log[i].after
            IN  /\ after = AllPasses(before, ObjKeys(before[1]))
                /\ pc \in {"coerce", "done"} => stats.outlierCount = Len(before) - Len(after)
                /\ (ObjKeys(before[1]) = <<<<"v">>>>
                      /\ ColumnText(before, <<"v">>)
                            = <<<<"1">>, <<"2">>, <<"3">>, <<"4">>, <<"1", "0", "0">>>>)
                     => /\ after = SubSeq(before, 1, 4)
                        /\ pc \in {"coerce", "done"} => stats.outlierCount = 1

\* the row of 100 was removed from the column 1, 2, 3, 4, 100
C11_Witness ==
    /\ pc = "done"
    /\ options.removeOutliers
    /\ stats.outlierCount = 1
    /\ \E i \in StageEntries("outliers") :
          /\ ColumnText(log[i].before, <<"v">>) = <<<<"1">>, <<"2">>, <<"3">>, <<"4">>, <<"1", "0", "0">>>>
          /\ Len(log[i].after) = 4

\* C12: outlier filtering compounds across the columns in their order: the
\* fences of the second column are taken over the rows the pass over the
\* first column left, not over the rows that entered the stage.
C12_OutliersCompound ==
    options.removeOutliers =>
        \A i \in StageEntries("outliers") :
            LET before == log[i].before
                cols == ObjKeys(before[1])
                reduced == OnePass(before, cols[1])
            IN  Len(cols) = 2 =>
                  log[i].after =
                     IF Parseable(reduced, cols[2]) = {} THEN reduced
                     ELSE Pick(reduced,
                               (1..Len(reduced))
                                 \ Beyond(reduced, cols[2], TukeyFences(reduced, cols[2])))

\* a row was removed for the second column that lies within the fences
\* taken over the rows that entered the stage
C12_Witness ==
    /\ options.removeOutliers
    /\ \E i \in StageEntries("outliers") :
          LET before == log[i].before
          IN  /\ Len(ObjKeys(before[1])) = 2
              /\ Len(log[i].after) < Len(PassesFromEntry(before, ObjKeys(before[1])))
              /\ Len(OnePass(before, ObjKeys(before[1])[1])) < Len(before)

\* ---- the imputation ----

\* the cells (row, column of the first row) that are missing in rows
MissingCells(rows) ==
    {c \in (1..Len(rows)) \X KeySet(rows[1]) : IsMissing(ObjGet(rows[c[1]], c[2]))}

\* the cells of `after` are those of `before`, but for the missing cells of
\* the first row's columns
OtherCellsKept(before, after) ==
    /\ Len(after) = Len(before)
    /\ \A r \in 1..Len(before) : \A c \in 1..Len(before[r]) :
          <<r, before[r][c].k>> \notin MissingCells(before)
              => ObjGet(after[r], before[r][c].k) = before[r][c].v

\* the stats of the run are those cleanData returns
StatsFinal == pc \in {"done", "responded"}

\* C13 as stated: with the strategy constant every missing cell is replaced
\* by constantValue, by "" when there is none, and counted in both cases.
C13_AsClaimed ==
    options.missingValueStrategy = "constant" =>
        \A i \in StageEntries("impute") :
            /\ \A c \in MissingCells(log[i].before) :
                  ObjGet(log[i].after[c[1]], c[2])
                    = IF options.constantValue = Undefined THEN Str(<<>>) ELSE options.constantValue
            /\ StatsFinal => stats.nullValuesFixed = Cardinality(MissingCells(log[i].before))

\* C13 amended: with the strategy constant and a constantValue, every
\* missing cell of a column of the first row is replaced by constantValue
\* (the empty string included) and counted, and no other cell changes;
\* without a constantValue the stage is skipped: no cell changes and
\* nullValuesFixed stays 0.
C13_ConstantImputation ==
    options.missingValueStrategy = "constant" =>
        \A i \in StageEntries("impute") :
            IF options.constantValue = Undefined
            THEN /\ log[i].after = log[i].before
                 /\ StatsFinal => stats.nullValuesFixed = 0
            ELSE /\ \A c \in MissingCells(log[i].before) :
                       ObjGet(log[i].after[c[1]], c[2]) = options.constantValue
                 /\ OtherCellsKept(log[i].before, log[i].after)
                 /\ StatsFinal => stats.nullValuesFixed = Cardinality(MissingCells(log[i].before))

\* a null cell was replaced by the constant "0"
C13_Witness ==
    /\ pc = "done"
    /\ options.missingValueStrategy = "constant"
    /\ options.constantValue = Str(<<"0">>)
    /\ stats.nullValuesFixed = 1
    /\ \E i \in StageEntries("impute") : \E c \in MissingCells(log[i].before) :
          /\ ObjGet(log[i].before[c[1]], c[2]) = Null
          /\ ObjGet(log[i].after[c[1]], c[2]) = Str(<<"0">>)

\* C14: nullValuesFixed is the number of cells that were missing before the
\* imputation and that it replaced (every missing cell of the first row's
\* columns when the stage runs, none when it is skipped), and when it runs
\* all the missing cells of one column get the same replacement.
C14_NullValuesFixedCount ==
    \A i \in StageEntries("impute") :
        LET gaps == MissingCells(log[i].before)
            runs == options.missingValueStrategy # "constant" \/ options.constantValue # Undefined
        IN  /\ StatsFinal => stats.nullValuesFixed = IF runs THEN Cardinality(gaps) ELSE 0
            /\ pc = "responded"
                  => stored.cleaningStats[1].nullValuesFixed = IF runs THEN Cardinality(gaps) ELSE 0
            /\ \A c1, c2 \in gaps :
                  (runs /\ c1[2] = c2[2]) => ObjGet(log[i].after[c1[1]], c1[2]) = ObjGet(log[i].after[c2[1]], c2[2])

\* a null and an empty cell of one column were both replaced by the one
\* value, and two replacements were counted
C14_Witness ==
    /\ pc = "responded"
    /\ stored.cleaningStats[1].nullValuesFixed = 2
    /\ \E i \in StageEntries("impute") : \E c1, c2 \in MissingCells(log[i].before) :
          /\ c1[1] # c2[1]
          /\ c1[2] = c2[2]
          /\ ~IsMissing(ObjGet(log[i].after[c1[1]], c1[2]))
          /\ ObjGet(log[i].after[c1[1]], c1[2]) = ObjGet(log[i].after[c2[1]], c2[2])

\* the columns of the first row with a missing cell
GapColumns(rows) == {c[2] : c \in MissingCells(rows)}

\* every missing cell of column col holds v afterwards
Filled(before, after, col, v) ==
    \A c \in MissingCells(before) : c[2] = col => ObjGet(after[c[1]], col) = v

\* the sum of the values of the cells
RECURSIVE SumOf(_)
SumOf(cells) ==
    IF cells = {} THEN IntNum(0)
    ELSE LET p == CHOOSE q \in cells : TRUE
         IN  NumAdd(p[2], SumOf(cells \ {p}))

\* the arithmetic mean of the values of the cells
MeanOf(cells) == NumDivInt(SumOf(cells), Cardinality(cells))

\* the median of the values of the cells: the middle one of an odd number,
\* the mean of the two middle ones of an even number
MedianOf(cells) ==
    LET n == Cardinality(cells)
    IN  IF n % 2 = 1 THEN KthSmallest(cells, n \div 2)
        ELSE NumDivInt(NumAdd(KthSmallest(cells, (n \div 2) - 1), KthSmallest(cells, n \div 2)), 2)

\* the non-missing cells of column col that do not parse as a number
Unparseable(rows, col) ==
    {i \in 1..Len(rows) : ~IsMissing(ObjGet(rows[i], col))} \ Parseable(rows, col)

\* C15: in a column with a missing cell and a non-missing value that parses
\* as a number, the strategy mean replaces by the arithmetic mean of the
\* parseable values and the strategy median by their median (the middle
\* value, or the mean of the two middle values); values that do not parse
\* are left out.
C15_MeanAndMedian ==
    options.missingValueStrategy \in {"mean", "median"} =>
        \A i \in StageEntries("impute") : \A col \in GapColumns(log[i].before) :
            Parsed(log[i].before, col) # {} =>
                Filled(log[i].before, log[i].after, col,
                       IF options.missingValueStrategy = "mean"
                       THEN MeanOf(Parsed(log[i].before, col))
                       ELSE MedianOf(Parsed(log[i].before, col)))

\* the median of a column with two different parseable values, a value that
\* does not parse and a gap: the mean of the two
C15_Witness ==
    /\ options.missingValueStrategy = "median"
    /\ \E i \in StageEntries("impute") : \E col \in GapColumns(log[i].before) :
          LET cells == Parsed(log[i].before, col)
          IN  /\ Cardinality(cells) = 2
              /\ Cardinality({p[2] : p \in cells}) = 2
              /\ Unparseable(log[i].before, col) # {}
              /\ Filled(log[i].before, log[i].after, col, MeanOf(cells))

\* the cells with the value v
Occurrences(cells, v) == Cardinality({q \in cells : q[2] = v})

\* no value of the cells occurs more often than that of the cell p
MostFrequent(cells, p) ==
    \A q \in cells : Occurrences(cells, q[2]) <= Occurrences(cells, p[2])

\* the non-missing cells of column col: pairs of a row and the cell's text
RawTexts(rows, col) ==
    {<<i, ToStr(ObjGet(rows[i], col))>> :
        i \in {j \in 1..Len(rows) : ~IsMissing(ObjGet(rows[j], col))}}

ClaimedType(vals, legacy) ==
    IF \A i \in 1..Len(vals) :
          IsMissing(vals[i]) \/ (~IsNaN(ToNumber(vals[i])) /\ ~IsInfinite(ToNumber(vals[i])))
    THEN IF \E i \in 1..Len(vals) : ~IsMissing(vals[i]) /\ Includes(ToStr(vals[i]), ".")
         THEN "float" ELSE "integer"
    ELSE IF \A i \in 1..Len(vals) : IsMissing(vals[i]) \/ DateParse(vals[i], legacy).ok
    THEN "date"
    ELSE "string"

\* the first 100 cells of column col
First100(rows, col) ==
    [i \in 1..(IF Len(rows) < 100 THEN Len(rows) ELSE 100) |-> ObjGet(rows[i], col)]

\* C17 as stated: the type recorded for a column is the one the rule gives
\* its first 100 values (for either verdict of the engine's date parser on
\* the texts the language leaves to it).
C17_AsClaimed ==
    \A i \in StageEntries("standardize") : \A j \in 1..Len(stats.columnsRenamed) :
        LET vals == First100(log[i].before, stats.columnsRenamed[j].original)
        IN  stats.columnsRenamed[j].type \in {ClaimedType(vals, TRUE), ClaimedType(vals, FALSE)}

\* the type recorded for the column named col after the renaming
RecordedType(col) ==
    LET known == {j \in 1..Len(stats.columnsRenamed) : stats.columnsRenamed[j].cleaned = col}
    IN  IF known = {} THEN "none"
        ELSE stats.columnsRenamed[CHOOSE j \in known : \A h \in known : j <= h].type

\* C18 as stated: with fixDataTypes after a standardization, a non-missing
\* cell of an integer or float column becomes its parsed number, and stays
\* as it is when it does not parse; a cell of a date column becomes its
\* YYYY-MM-DD text, and stays as it is when it is no date; missing cells
\* and cells of string columns stay as they are.
C18_AsClaimed ==
    (options.fixDataTypes /\ options.standardizeColumnNames /\ pc \in {"done", "responded"}) =>
        \A i \in StageEntries("coerce") :
            \A r \in 1..Len(log[i].before) : \A c \in 1..Len(log[i].before[r]) :
                LET col == log[i].before[r][c].k
                    v == log[i].before[r][c].v
                    w == ObjGet(log[i].after[r], col)
                    type == RecordedType(col)
                IN  IF IsMissing(v) \/ type \in {"string", "none"} THEN w = v
                    ELSE IF type = "integer" THEN w = IF IsNaN(ParseInt(v)) THEN v ELSE ParseInt(v)
                    ELSE IF type = "float" THEN w = IF IsNaN(ParseFloat(v)) THEN v ELSE ParseFloat(v)
                    ELSE w \in {IF NewDate(v, l).ok THEN Str(IsoDatePart(NewDate(v, l))) ELSE v :
                                  l \in BOOLEAN}

\* C19: without standardizeColumnNames the standardization stage changes
\* nothing (the working rows are still the raw row objects), columnsRenamed
\* and dataTypeSummary stay empty, in the returned and in the stored stats,
\* and the coercion stage changes no cell, with fixDataTypes or without.
C19_NoStandardization ==
    ~options.standardizeColumnNames =>
        /\ \A i \in StageEntries("standardize") : log[i].after = log[i].before
        /\ pc = "dedupe" => data = ShallowCopy(original)
        /\ stats.columnsRenamed = <<>> /\ stats.dataTypeSummary = <<>>
        /\ pc = "responded" =>
              /\ stored.cleaningStats[1].columnsRenamed = <<>>
              /\ stored.cleaningStats[1].dataTypeSummary = <<>>
        /\ \A i \in StageEntries("coerce") : log[i].after = log[i].before

\* a run with fixDataTypes and without standardizeColumnNames that returned
\* a numeric text as it was
C19_Witness ==
    /\ pc = "done"
    /\ ~options.standardizeColumnNames
    /\ options.fixDataTypes
    /\ \E r \in 1..Len(data) : \E c \in 1..Len(data[r].obj) :
          /\ IsString(data[r].obj[c].v)
          /\ ~IsMissing(data[r].obj[c].v)
          /\ ~IsNaN(ParseInt(data[r].obj[c].v))

\* ---- Scenario A ----

\* the raw rows [{"A ": "1"}, {"A ": "1"}, {"A ": ""}]
ScenarioA ==
    <<Row1(<<"A", " ">>, Str(<<"1">>)), Row1(<<"A", " ">>, Str(<<"1">>)), Row1(<<"A", " ">>, Str(<<>>))>>

\* the scenario's options; removeOutliers and fixDataTypes are not given
ScenarioAOptions ==
    /\ options.standardizeColumnNames
    /\ options.missingValueStrategy = "constant"
    /\ options.constantValue = Str(<<"0">>)

\* C20 as stated: the scenario ends with the column named a, one duplicate
\* removed, one cell fixed and the rows [{"a": "1"}, {"a": "0"}].
C20_AsClaimed ==
    (original = ScenarioA /\ ScenarioAOptions /\ pc = "done") =>
        /\ stats.columnsRenamed[1].cleaned = <<"a">>
        /\ stats.duplicatesRemoved = 1
        /\ stats.nullValuesFixed = 1
        /\ Objs(data) = <<Row1(<<"a">>, Str(<<"1">>)), Row1(<<"a">>, Str(<<"0">>))>>

\* C20 amended: the scenario never raises; the column "A " is renamed a_
\* (the trailing space becomes an underscore), one duplicate is removed and
\* one cell fixed; the rows returned are [{"a_": "1"}, {"a_": "0"}] without
\* fixDataTypes and [{"a_": 1}, {"a_": 0}] with it, the column being typed
\* integer.
C20_ScenarioA ==
    (original = ScenarioA /\ ScenarioAOptions) =>
        /\ pc \notin {"threw", "failed"}
        /\ pc \in {"done", "responded"} =>
              /\ stats.columnsRenamed
                    = <<[original |-> <<"A", " ">>, cleaned |-> <<"a", "_">>, type |-> "integer"]>>
              /\ stats.duplicatesRemoved = 1
              /\ stats.nullValuesFixed = 1
              /\ Objs(data) =
                    IF options.fixDataTypes
                    THEN <<Row1(<<"a", "_">>, IntNum(1)), Row1(<<"a", "_">>, IntNum(0))>>
                    ELSE <<Row1(<<"a", "_">>, Str(<<"1">>)), Row1(<<"a", "_">>, Str(<<"0">>))>>
        /\ pc = "responded" => stored.cleanedData = <<Objs(data)>>

\* the scenario was run to its end without removeOutliers and fixDataTypes
C20_Witness ==
    /\ original = ScenarioA
    /\ ScenarioAOptions
    /\ ~options.removeOutliers
    /\ ~options.fixDataTypes
    /\ pc = "responded"
    /\ stored.cleanedData[1] = <<Row1(<<"a", "_">>, Str(<<"1">>)), Row1(<<"a", "_">>, Str(<<"0">>))>>

\* the original columns: the keys of the first raw row, in order
OriginalColumns == ObjKeys(original[1])

\* the last original column that cleans to the name the j-th one cleans to
LastAlike(j) ==
    LET alike == {h \in 1..Len(OriginalColumns) :
                    CleanColumnName(OriginalColumns[h]) = CleanColumnName(OriginalColumns[j])}
    IN  CHOOSE h \in alike : \A g \in alike : g <= h

\* C21: original columns that clean to the same name are not deduplicated:
\* every standardized row has one column under that name, holding the row's
\* value of the last such original column, and columnsRenamed has an entry
\* for each original column.  The rows are looked at as the stage returns
\* them; the log keeps them unchanged afterwards.
C21_NameCollisions ==
    \A i \in StageEntries("standardize") :
        options.standardizeColumnNames =>
            /\ pc = After("standardize") =>
                  /\ \A r \in 1..Len(log[i].after) : \A j \in 1..Len(OriginalColumns) :
                        LET name == CleanColumnName(OriginalColumns[j])
                            row == log[i].after[r]
                        IN  /\ Cardinality({c \in 1..Len(row) : row[c].k = name}) = 1
                            /\ ObjGet(row, name)
                                  = ObjGet(log[i].before[r], OriginalColumns[LastAlike(j)])
                  /\ \A r \in 1..Len(log[i].after) :
                        KeySet(log[i].after[r])
                          = {CleanColumnName(OriginalColumns[j]) : j \in 1..Len(OriginalColumns)}
            /\ pc \notin {"threw", "failed"} =>
                  /\ Len(stats.columnsRenamed) = Len(OriginalColumns)
                  /\ \A j \in 1..Len(OriginalColumns) :
                        stats.columnsRenamed[j].original = OriginalColumns[j]

\* two original columns cleaned to one name, and a row that held different
\* values in them kept the later one
C21_Witness ==
    /\ pc = "done"
    /\ \E i \in StageEntries("standardize") :
          \E j \in 1..Len(OriginalColumns) : \E r \in 1..Len(log[i].after) :
              /\ LastAlike(j) # j
              /\ ObjGet(log[i].before[r], OriginalColumns[j])
                    # ObjGet(log[i].before[r], OriginalColumns[LastAlike(j)])
              /\ ObjGet(log[i].after[r], CleanColumnName(OriginalColumns[j]))
                    = ObjGet(log[i].before[r], OriginalColumns[LastAlike(j)])
              /\ Len(stats.columnsRenamed) = 2

\* the types type inference records
InferredTypes == {"integer", "float", "date", "string"}

\* the tally of type t in a dataTypeSummary, 0 when it has no such key
Tally(summary, t) ==
    IF \E i \in 1..Len(summary) : summary[i].k = t
    THEN summary[CHOOSE i \in 1..Len(summary) : summary[i].k = t].v
    ELSE 0

\* C22: once standardization has run, and unless a later stage raises,
\* columnsRenamed has one entry per
\* column of the first raw row, in the order of the columns, with the
\* cleaned name and the type inferred from the column's sampled raw cells,
\* one of the four types; dataTypeSummary holds, for each
\* type, the number of entries of that type and has no key for a type
\* without entries, so its tallies sum to totalColumns.
C22_OneEntryPerColumn ==
    (options.standardizeColumnNames /\ StageEntries("standardize") # {}
       /\ pc \notin {"threw", "failed"}) =>
        /\ Len(stats.columnsRenamed) = stats.totalColumns
        /\ stats.totalColumns = Len(OriginalColumns)
        /\ \A j \in 1..Len(OriginalColumns) :
              /\ stats.columnsRenamed[j].original = OriginalColumns[j]
              /\ stats.columnsRenamed[j].cleaned = CleanColumnName(OriginalColumns[j])
              /\ stats.columnsRenamed[j].type \in InferredTypes
              /\ \E legacy \in BOOLEAN :
                    stats.columnsRenamed[j].type
                      = InferType(SampleValues(ShallowCopy(original), OriginalColumns[j]), legacy)
        /\ \A t \in InferredTypes :
              Tally(stats.dataTypeSummary, t)
                = Cardinality({j \in 1..Len(stats.columnsRenamed) : stats.columnsRenamed[j].type = t})
        /\ \A i \in 1..Len(stats.dataTypeSummary) :
              /\ stats.dataTypeSummary[i].k \in InferredTypes
              /\ stats.dataTypeSummary[i].v > 0
              /\ \A h \in 1..Len(stats.dataTypeSummary) :
                    stats.dataTypeSummary[h].k = stats.dataTypeSummary[i].k => h = i
        /\ Tally(stats.dataTypeSummary, "integer") + Tally(stats.dataTypeSummary, "float")
              + Tally(stats.dataTypeSummary, "date") + Tally(stats.dataTypeSummary, "string")
              = stats.totalColumns

\* a run that typed two columns alike and one that typed them differently
C22_Witness ==
    /\ pc = "done"
    /\ options.standardizeColumnNames
    /\ Len(stats.columnsRenamed) = 2
    /\ stats.columnsRenamed[1].type = stats.columnsRenamed[2].type
    /\ Tally(stats.dataTypeSummary, stats.columnsRenamed[1].type) = 2

\* the columns of the working rows whose recorded type is type
ColumnsTyped(type) == {col \in KeySet(data[1].obj) : RecordedType(col) = type}

\* C23 as stated: once the coercion stage has run, running it again on its
\* result changes no cell of a column typed "integer".
C23_AsClaimed ==
    (pc = "done" /\ options.fixDataTypes /\ data # <<>>) =>
        \A legacy \in BOOLEAN :
            LET again == CoerceTypes(data, stats, options, legacy).data
            IN  \A r \in 1..Len(data) : \A col \in ColumnsTyped("integer") :
                    ObjGet(again[r].obj, col) = ObjGet(data[r].obj, col)

\* C24: a process request whose missingValueStrategy is none of mean,
\* median, mode and constant fails with an error before cleanData is
\* called: no stage runs, there is neither a cleaned dataset nor stats, and
\* the stored dataset stays as it was created.
C24_UnknownStrategyRejected ==
    options.missingValueStrategy \notin Strategies \cup {NotGiven} =>
        /\ pc \in {"start", "threw", "failed"}
        /\ pc # "start" => threw = ZodErr
        /\ data = <<>> /\ stats = NoStats /\ log = <<>>
        /\ stored = CreateDataset(original)

\* a request with an unknown strategy for a dataset with a missing cell was
\* answered with the failure
C24_Witness ==
    /\ options.missingValueStrategy = UnknownStrategy
    /\ pc = "failed"
    /\ threw = ZodErr
    /\ \E r \in 1..Len(original) : \E c \in 1..Len(original[r]) : IsMissing(original[r][c].v)
    /\ stored.cleanedData = <<>>

\* the rows of the cells whose value is q1 or q3
RowsAt(cells, q1, q3) == {p[1] : p \in {q \in cells : q[2] = q1 \/ q[2] = q3}}

\* the rows of the cells whose value is the Q1 or the Q3 of the cells
QuartileRowsOf(cells) ==
    RowsAt(cells, KthSmallest(cells, Cardinality(cells) \div 4),
                  KthSmallest(cells, (3 * Cardinality(cells)) \div 4))

\* the rows of `rows` whose parseable cell in column col is the column's Q1
\* or Q3
QuartileRows(rows, col) == QuartileRowsOf(Parsed(rows, col))

\* the rows the filter of column col keeps of the rows `rows`
KeptByFilter(rows, col) ==
    LET parsed == [r \in 1..Len(rows) |-> ParseFloat(ObjGet(rows[r], col))]
        kept == WithinBounds(ShallowCopy(rows), col, OutlierBounds(SelectSeq(parsed, NotNaN)))
    IN  {kept[j].ref : j \in 1..Len(kept)}

\* some row is in quartileRows, and all of them are in kept
SomeAndAllIn(quartileRows, kept) == quartileRows # {} /\ quartileRows \subseteq kept

\* C26: the dataset cleanData returns, and the one stored from it, has at
\* least one row: the dedupe stage keeps the first row, the filter of a
\* column keeps every row whose value is the column's Q1 or Q3, and the
\* outlier stage leaves at least one row.
C26_NeverEmpty ==
    /\ pc \in {"done", "responded"} => Len(data) >= 1
    /\ pc = "responded" => Len(stored.cleanedData[1]) >= 1
    /\ \A i \in StageEntries("dedupe") :
          log[i].after # <<>> /\ log[i].after[1] = log[i].before[1]
    /\ \A i \in StageEntries("outliers") :
          /\ log[i].after # <<>>
          /\ (pc = After("outliers") /\ options.removeOutliers) =>
                \A c \in 1..Len(log[i].before[1]) :
                    LET col == log[i].before[1][c].k
                    IN  Parseable(log[i].before, col) # {} =>
                            SomeAndAllIn(QuartileRows(log[i].before, col),
                                         KeptByFilter(log[i].before, col))

\* a run that removed duplicates and outliers and returned rows
C26_Witness ==
    /\ pc = "done"
    /\ options.removeOutliers
    /\ stats.outlierCount >= 1
    /\ stats.duplicatesRemoved >= 1
    /\ Len(data) >= 1

\* C27: the rows are accounted for exactly: after every stage totalRows,
\* the raw row count, is the number of working rows plus duplicatesRemoved
\* plus outlierCount, and so it is for the rows and stats returned and
\* stored; without removeOutliers the outlier stage removes no row and
\* outlierCount is 0.
C27_RowAccounting ==
    /\ pc \in {"dedupe", "impute", "outliers", "coerce", "done", "responded"} =>
          /\ stats.totalRows = Len(original)
          /\ stats.totalRows = Len(data) + stats.duplicatesRemoved + stats.outlierCount
    /\ pc = "responded" =>
          LET s == stored.cleaningStats[1]
          IN  s.totalRows = Len(stored.cleanedData[1]) + s.duplicatesRemoved + s.outlierCount
    /\ (~options.removeOutliers /\ pc \notin {"threw", "failed"}) =>
          /\ stats.outlierCount = 0
          /\ pc = After("outliers") =>
                \A i \in StageEntries("outliers") : log[i].after = log[i].before

\* a run that removed a duplicate and an outlier and returned the rest
C27_Witness ==
    /\ pc = "responded"
    /\ stats.duplicatesRemoved >= 1
    /\ stats.outlierCount >= 1
    /\ Len(stored.cleanedData[1]) >= 2
    /\ stats.totalRows = Len(stored.cleanedData[1]) + stats.duplicatesRemoved + stats.outlierCount

(***************************************************************************)
(* C29: after any sequence of createDataset, updateDataset and             *)
(* deleteDataset calls the ids handed out are 1 and then strictly          *)
(* increasing, each stored dataset is stored under its own id and that id  *)
(* is below the next one to be issued, a dataset as created is unprocessed *)
(* with cleanedData, cleaningStats and savedProjectName null, and an       *)
(* updateDataset on an id that is not stored returns undefined and leaves  *)
(* the Map as it was.                                                      *)
(***************************************************************************)
C29_IdsNeverReused ==
    /\ issued # <<>> => issued[1] = 1
    /\ \A k \in 1..(Len(issued) - 1) : issued[k] < issued[k + 1]
    /\ \A k \in 1..Len(issued) : issued[k] < datasetCurrentId
    /\ \A id \in DOMAIN datasets :
          /\ datasets[id].id = id
          /\ id < datasetCurrentId
          /\ \E k \in 1..Len(issued) : issued[k] = id
    /\ \A r \in Waiting("upload", "updated") :
          /\ r.found[1].isProcessed = FALSE
          /\ r.found[1].cleanedData = <<>>
          /\ r.found[1].cleaningStats = <<>>
          /\ r.found[1].savedProjectName = <<>>
          /\ r.found[1].rawData = r.raw
    /\ (lastCall.op = "updateDataset" /\ ~lastCall.known) =>
          (lastCall.result = <<>> /\ ~lastCall.changed)

\* a dataset was deleted, a later one was created, and an updateDataset
\* went to an id that was no longer stored
C29_Witness ==
    /\ Len(issued) = 2
    /\ DOMAIN datasets = {2}
    /\ lastCall.op = "updateDataset"
    /\ ~lastCall.known

\* the options a process request can carry once parsed
ValidOptions == {ParseOptions(body).options : body \in {b \in StoreBodies : ParseOptions(b).ok}}

\* res is a completed run, and the rows and stats are the ones it returned
IsResultOf(cleanedData, cleaningStats, res) ==
    /\ res.threw = NoError
    /\ cleanedData = <<Objs(res.data)>>
    /\ cleaningStats = <<res.stats>>

\* nothing of a run, or all of one run over rawData
NothingOrOneRun(rawData, cleanedData, cleaningStats, isProcessed) ==
    \/ cleanedData = <<>> /\ cleaningStats = <<>> /\ isProcessed = FALSE
    \/ /\ isProcessed = TRUE
       /\ \E opts \in ValidOptions : \E legacy \in BOOLEAN :
             IsResultOf(cleanedData, cleaningStats, CleanData(rawData, opts, legacy))

(***************************************************************************)
(* C25: whatever the interleaving of the upload, process, save-project and *)
(* read requests, every stored dataset, every dataset a handler got from   *)
(* the store and every answer to a read request has cleanedData null,      *)
(* cleaningStats null and isProcessed false, or isProcessed true with the  *)
(* rows and the stats that one run of cleanData over its rawData returned. *)
(***************************************************************************)
C25_NoPartialResult ==
    /\ \A id \in DOMAIN datasets :
          NothingOrOneRun(datasets[id].rawData, datasets[id].cleanedData,
                          datasets[id].cleaningStats, datasets[id].isProcessed)
    /\ \A r \in BagToSet(reqs) :
          /\ r.found # <<>> =>
                NothingOrOneRun(r.found[1].rawData, r.found[1].cleanedData,
                                r.found[1].cleaningStats, r.found[1].isProcessed)
          /\ (r.kind = "read" /\ r.status = 200) =>
                NothingOrOneRun(r.found[1].rawData, r.sent.cleanedData[1], r.sent.stats[1],
                                r.sent.isProcessed[1])

\* two process requests with different options on one dataset were both
\* answered 200 and the dataset is stored as processed
C25_Witness ==
    \E id \in DOMAIN datasets :
        /\ datasets[id].isProcessed
        /\ \E r1 \in Waiting("process", "done") : \E r2 \in Waiting("process", "done") :
              /\ r1.id = id /\ r2.id = id
              /\ r1.status = 200 /\ r2.status = 200
              /\ r1.options # r2.options
              /\ r1.sent # r2.sent

\* the requests of a kind for dataset id that were answered 200
Succeeded(kind, id) == {r \in Waiting(kind, "done") : r.id = id /\ r.status = 200}

(***************************************************************************)
(* C28: whatever the interleaving, a stored dataset for which a            *)
(* save-project request was answered 200 carries the project name of such  *)
(* a request, and one for which a process request was answered 200 is      *)
(* processed and carries the rows and stats that such a request returned:  *)
(* neither update undoes the other.                                        *)
(***************************************************************************)
C28_NoLostUpdate ==
    \A id \in DOMAIN datasets :
        /\ Succeeded("save", id) # {} =>
              \E r \in Succeeded("save", id) \cup Waiting("save", "updated") :
                  r.id = id /\ datasets[id].savedProjectName = <<r.name>>
        /\ Succeeded("process", id) # {} =>
              /\ datasets[id].isProcessed
              /\ \E r \in Succeeded("process", id) \cup Waiting("process", "updated") :
                    /\ r.id = id
                    /\ <<datasets[id].cleanedData>> = r.sent.cleanedData
                    /\ <<datasets[id].cleaningStats>> = r.sent.stats

\* a save-project and a process request for one stored dataset were both
\* answered 200, each having got the dataset before the other updated it
C28_Witness ==
    \E id \in DOMAIN datasets :
        /\ \E r \in Succeeded("save", id) : ~r.found[1].isProcessed
        /\ \E r \in Succeeded("process", id) : r.found[1].savedProjectName = <<>>
        /\ datasets[id].isProcessed
        /\ datasets[id].savedProjectName # <<>>

(***************************************************************************)
(* C30: the page issues a process request only as its first one, and only  *)
(* while the dataset it has loaded is not processed.                       *)
(***************************************************************************)
C30_AsClaimed ==
    [][processRequests' # processRequests =>
         (processRequests = 0 /\ pageDataset.loaded /\ ~pageDataset.isProcessed)]_pageVars

====
